---- MODULE Spec2Model ----
(***************************************************************************)
(* Model of the golang-socketio server core: the room registry and the sid *)
(* index of Server, the lifecycle dispatch of event.callHandler, session   *)
(* setup and transport upgrade, the broadcast fan-out and the dispatch of  *)
(* inbound packets by event.processIncoming.                               *)
(***************************************************************************)
EXTENDS Integers, Sequences, FiniteSets, TLC

(***************************************************************************)
(* Universe of the model.                                                  *)
(***************************************************************************)
Chan == {"c1", "c2", "c3"}
\* channels are interchangeable: the first serves a new polling session, the
\* second a new websocket session, the last one an upgrade request
NewChan == {"c1", "c2"}
UpChan == {"c3"}
TransportOf(c) == IF c = "c1" THEN "polling" ELSE "websocket"
Room == {"roomA", "roomX"}
NoChan == "nochan"
NoSid == "nosid"
Free == "free"

\* system event names, src/event.go:13-17
OnConnection == "connection"
OnDisconnection == "disconnection"

\* bound on the user event packets one channel's inbound loop dispatches
MaxEvents == 2

VARIABLES
  channels,     \* Server.channels: room name -> set of channels
  rooms,        \* Server.rooms: channel -> set of room names
  sids,         \* Server.sids: sid -> channel
  channelsMu,   \* writer holding Server.channelsMu, or Free
  handlers,     \* event.handlers: name -> handler representation
  kind,         \* transport of the channel's connection
  sid,          \* Channel.connHeader.Sid
  alive,        \* Channel.alive
  stubbed,      \* the channel was retired by stub()
  outC,         \* Channel.outC, the outbound queue
  pc,           \* position of setupEventLoop / upgradeEventLoop for the channel
  pollingChannel, \* local variable pollingChannel of upgradeEventLoop
  inl,          \* state of the channel's inbound loop
  disc,         \* position of callHandler(c, OnDisconnection)
  purgedFrom,   \* the rooms a running onDisconnection removed the channel from
  userConn,     \* invocations of the user's connection handler
  userDisc,     \* invocations of the user's disconnection handler
  recv,         \* packets the inbound loop handed to processIncoming, per channel
  calls,        \* user event handler invocations by processIncoming, per channel
  emitTasks,    \* Emit calls started by a broadcast and not finished, per channel
  bcast,        \* the last broadcast call: operation, room, caller, number
  ackTable,     \* Channel.ack: the ack ids with an installed slot, per channel
  ackCalls,     \* the Ack calls of a channel, in the order of their ack ids
  ackSend,      \* the slot and args processIncoming is sending an ack response to
  written,      \* packets the outbound loop wrote to the client, per channel
  tpc,          \* statement each dispatching task of a channel is at
  handlersMu,   \* tasks holding event.handlersMu (read side)
  sidsMu,       \* task holding Server.sidsMu, or NoTask
  heldAtCall,   \* the locks the dispatching task held at each user handler call
  rop,          \* the registry read operation each application task is in
  onCall,       \* the On call of the application: statement, name and handler
  running,      \* user handlers started and not returned, per channel
  pw,           \* state of each polling GET request inside PollingWriter
  wm,           \* state of each PollingConnection.WriteMessage call
  post,         \* state of each polling POST request inside PollingTransport.Serve
  rd,           \* the reader of the polling connection and what GetMessage returned
  sessions      \* PollingTransport.sessions.m: the session ids with a connection

regVars == <<channels, rooms, sids, channelsMu>>
chanVars == <<kind, sid, alive, stubbed, outC, pc, pollingChannel, inl, disc, purgedFrom>>
userVars == <<userConn, userDisc, recv, calls>>
bcVars == <<emitTasks, bcast>>
ackVars == <<ackTable, ackCalls, ackSend>>
lockVars == <<tpc, handlersMu, sidsMu, heldAtCall, rop, onCall>>
pollVars == <<pw, wm, post, rd, sessions>>
auxVars == <<ackTable, ackCalls, ackSend, written, tpc, handlersMu, sidsMu, heldAtCall, rop,
            onCall, running, pw, wm, post, rd, sessions>>
vars == <<channels, rooms, sids, channelsMu, handlers, kind, sid, alive, stubbed,
          outC, pc, pollingChannel, inl, disc, purgedFrom, userConn, userDisc, recv, calls,
          emitTasks, bcast, ackTable, ackCalls, ackSend, written, tpc, handlersMu, sidsMu,
          heldAtCall, rop, onCall, running, pw, wm, post, rd, sessions>>

(***************************************************************************)
(* Go maps: a function whose domain is the set of present keys.            *)
(***************************************************************************)
EmptyMap == [k \in {} |-> k]
Put(m, k, v) == [x \in (DOMAIN m) \cup {k} |-> IF x = k THEN v ELSE m[x]]
Del(m, k) == [x \in (DOMAIN m) \ {k} |-> m[x]]
Has(m, k) == k \in DOMAIN m

\* the members of a room; a missing key reads as the empty set
RoomChannels(room) == IF Has(channels, room) THEN channels[room] ELSE {}
\* the rooms recorded for a channel; a missing key reads as the empty set
ChannelRooms(c) == IF Has(rooms, c) THEN rooms[c] ELSE {}

\* the sid a new session's channel gets: generated from address, time and
\* 64 random bits, taken to be unique per channel
NewSid(c) == IF c = "c1" THEN "s1" ELSE IF c = "c2" THEN "s2" ELSE "s3"
Sid == {NewSid(c) : c \in Chan}

\* handler representations as registered by the example server
ExampleHandlers ==
  [n \in {OnConnection, OnDisconnection, "join", "send", "leave"} |->
     IF n \in {OnConnection, OnDisconnection}
       THEN [hasArgs |-> FALSE, argType |-> "none", out |-> FALSE]
       ELSE [hasArgs |-> TRUE, argType |-> IF n = "send" THEN "any" ELSE "string",
             out |-> TRUE]]

\* the two packets of the open sequence
OpenPacket(c) == [type |-> "open", sid |-> NewSid(c), upgrades |-> <<"websocket">>]
EmptyPacket == [type |-> "empty"]

NoBroadcast == [op |-> "none", room |-> "none", caller |-> NoChan, n |-> 0]

\* the HTTP GET requests of a polling session and the WriteMessage calls of
\* its outbound loop, each in the order it is made
Get == {"g1", "g2"}
WriteCall == {"w1", "w2"}
NoGet == "noget"
IdleGet == [st |-> "idle", frame |-> "none", out |-> "none"]
IdleWrite == [st |-> "idle", op |-> "none", msg |-> "none", by |-> NoGet, from |-> NoGet,
              ret |-> "none"]

\* the HTTP POST requests of the polling session, the session's id in the
\* transport's session map, and its reader before the first GetMessage call
Post == {"p1", "p2"}
PollChan == "c1"
PollSid == NewSid(PollChan)
IdlePost == [st |-> "idle", raw |-> <<>>, body |-> <<>>, resp |-> "none"]
IdleReader == [st |-> "busy", got |-> <<>>]

\* processIncoming is not at the send of an ack response
NoSend == [id |-> 0, args |-> "none"]

\* the application tasks that call the registry's read operations
Caller == {"a1"}
IdleOp == [at |-> "idle", op |-> "none"]

\* the tasks of a channel that dispatch: the task of the session's first
\* request (ServeHTTP, inside setupEventLoop), the inbound loop, and the task
\* that closes the channel
Role == {"ServeHTTP", "inLoop", "close"}
NoTask == <<>>
\* a task outside a dispatch: no name, no message
IdleTask ==
  [at |-> "idle", name |-> "none",
   m |-> [type |-> "none", name |-> "none", args |-> "none", ackID |-> 0]]

\* no On call is running: no name, no handler
IdleOn ==
  [at |-> "idle", name |-> "none",
   f |-> [hasArgs |-> FALSE, argType |-> "none", out |-> FALSE]]

\* no Ack call, no written packet, no task inside a dispatch, no HTTP request
TaskInit ==
  /\ ackTable = [c \in Chan |-> {}]
  /\ ackCalls = [c \in Chan |-> <<>>]
  /\ ackSend = [c \in Chan |-> NoSend]
  /\ written = [c \in Chan |-> <<>>]
  /\ tpc = [c \in Chan |-> [r \in Role |-> IdleTask]]
  /\ handlersMu = {}
  /\ sidsMu = NoTask
  /\ onCall = IdleOn
  /\ heldAtCall = {}
  /\ rop = [a \in Caller |-> IdleOp]
  /\ running = [c \in Chan |-> <<>>]
  /\ pw = [g \in Get |-> IdleGet]
  /\ wm = [w \in WriteCall |-> IdleWrite]
  /\ post = [p \in Post |-> IdlePost]
  /\ rd = IdleReader

\* DefaultPollingTransport: the session map is empty
AuxInit ==
  /\ TaskInit
  /\ sessions = {}

\* NewServer lines 197-208: the registry and the sid index are empty
NewServer ==
  /\ channels = EmptyMap
  /\ rooms = EmptyMap
  /\ sids = EmptyMap
  /\ channelsMu = Free
  /\ kind = [c \in Chan |-> "none"]
  /\ sid = [c \in Chan |-> NoSid]
  /\ alive = [c \in Chan |-> FALSE]
  /\ stubbed = [c \in Chan |-> FALSE]
  /\ outC = [c \in Chan |-> <<>>]
  /\ pc = [c \in Chan |-> "free"]
  /\ pollingChannel = [c \in Chan |-> NoChan]
  /\ inl = [c \in Chan |-> "none"]
  /\ disc = [c \in Chan |-> "none"]
  /\ purgedFrom = [c \in Chan |-> {}]
  /\ userConn = [c \in Chan |-> 0]
  /\ userDisc = [c \in Chan |-> 0]
  /\ recv = [c \in Chan |-> <<>>]
  /\ calls = [c \in Chan |-> <<>>]
  /\ emitTasks = [c \in Chan |-> <<>>]
  /\ bcast = NoBroadcast
  /\ AuxInit

\* NewServer line 210, event.init: no handler is registered
Init ==
  /\ handlers = EmptyMap
  /\ NewServer

\* the example server when it starts to listen: main has created the server
\* and made its five On calls
main ==
  /\ handlers = ExampleHandlers
  /\ NewServer

(***************************************************************************)
(* Session setup: Server.setupEventLoop.                                   *)
(***************************************************************************)
\* faulty variant: the sentinel is queued before the open packet
sendOpenSequenceSwapped(c) == <<EmptyPacket, OpenPacket(c)>>
\* sendOpenSequence lines 319-326: the queue of the new channel after the
\* open packet and the empty-message sentinel were sent on it
sendOpenSequence(c) == <<OpenPacket(c), EmptyPacket>>

\* PollingTransport.SetSid, called at line 350 for a polling connection: the
\* connection is entered in the session map under the new sid
SetSid(s, k) == IF k = "polling" THEN sessions \cup {s} ELSE sessions

\* lines 329-356: build the channel, enter a polling connection in the
\* transport's session map, send the open sequence, start the loops
setupEventLoop(c, k) ==
  /\ pc[c] = "free"
  /\ kind' = [kind EXCEPT ![c] = k]
  /\ sid' = [sid EXCEPT ![c] = NewSid(c)]
  /\ sessions' = SetSid(NewSid(c), k)
  /\ alive' = [alive EXCEPT ![c] = TRUE]
  /\ outC' = [outC EXCEPT ![c] = sendOpenSequence(c)]
  /\ inl' = [inl EXCEPT ![c] = "run"]
  /\ pc' = [pc EXCEPT ![c] = "started"]
  /\ UNCHANGED <<ackVars, written, lockVars, running, pw, wm, post, rd>>
  /\ UNCHANGED <<regVars, handlers, bcVars, stubbed, pollingChannel, disc, purgedFrom, userVars>>

\* onConnection: register the channel under its sid, under sidsMu
onConnection(c) == sids' = Put(sids, sid[c], c)

\* line 358, callHandler lines 61-64: the system part of the connection event
callHandlerOnConnection(c) ==
  /\ pc[c] = "started"
  /\ onConnection(c)
  /\ pc' = [pc EXCEPT ![c] = "registered"]
  /\ UNCHANGED <<auxVars, channels, rooms, channelsMu, handlers, bcVars, kind, sid, alive, stubbed,
                 outC, pollingChannel, inl, disc, purgedFrom, userVars>>

\* callHandler lines 70-76 for the connection event: the user's handler
callHandlerUserConnection(c) ==
  /\ pc[c] = "registered"
  /\ userConn' = [userConn EXCEPT ![c] = IF Has(handlers, OnConnection) THEN @ + 1 ELSE @]
  /\ pc' = [pc EXCEPT ![c] = "done"]
  /\ UNCHANGED <<auxVars, regVars, handlers, bcVars, kind, sid, alive, stubbed, outC,
                 pollingChannel, inl, disc, purgedFrom, userDisc, recv, calls>>

(***************************************************************************)
(* Dispatch of inbound packets: event.processIncoming.                     *)
(***************************************************************************)
\* json.Unmarshal of the packet's args into a value of the handler's argument
\* type: text that is no JSON fails, a JSON value of another type than the
\* declared one fails, interface{} takes any JSON value
Unmarshal(args, argType) ==
  /\ args # "garbage"
  /\ (argType = "any" \/ argType = args)

Dropped == [call |-> FALSE, send |-> FALSE, ackID |-> 0]

\* faulty variant: the ack response does not carry the request's ack id
processIncomingNoAckID(m) ==
  IF m.type = "emit" THEN
    IF ~Has(handlers, m.name) THEN Dropped
    ELSE IF ~handlers[m.name].hasArgs THEN [call |-> TRUE, send |-> FALSE, ackID |-> 0]
    ELSE IF ~Unmarshal(m.args, handlers[m.name].argType) THEN Dropped
    ELSE [call |-> TRUE, send |-> FALSE, ackID |-> 0]
  ELSE IF m.type = "ackreq" THEN
    IF ~Has(handlers, m.name) \/ ~handlers[m.name].out THEN Dropped
    ELSE IF handlers[m.name].hasArgs /\ ~Unmarshal(m.args, handlers[m.name].argType)
      THEN Dropped
    ELSE [call |-> TRUE, send |-> TRUE, ackID |-> 0]
  ELSE Dropped

\* faulty variant: an ack request is dispatched to a handler without a return
\* value as an event would be
processIncomingNoOut(m) ==
  IF m.type = "emit" THEN
    IF ~Has(handlers, m.name) THEN Dropped
    ELSE IF ~handlers[m.name].hasArgs THEN [call |-> TRUE, send |-> FALSE, ackID |-> 0]
    ELSE IF ~Unmarshal(m.args, handlers[m.name].argType) THEN Dropped
    ELSE [call |-> TRUE, send |-> FALSE, ackID |-> 0]
  ELSE IF m.type = "ackreq" THEN
    IF ~Has(handlers, m.name) THEN Dropped
    ELSE IF handlers[m.name].hasArgs /\ ~Unmarshal(m.args, handlers[m.name].argType)
      THEN Dropped
    ELSE [call |-> TRUE, send |-> handlers[m.name].out, ackID |-> m.ackID]
  ELSE Dropped

\* faulty variant: the handler is called although Unmarshal failed
processIncomingNoDecode(m) ==
  IF m.type = "emit" THEN
    IF ~Has(handlers, m.name) THEN Dropped
    ELSE [call |-> TRUE, send |-> FALSE, ackID |-> 0]
  ELSE IF m.type = "ackreq" THEN
    IF ~Has(handlers, m.name) \/ ~handlers[m.name].out THEN Dropped
    ELSE [call |-> TRUE, send |-> TRUE, ackID |-> m.ackID]
  ELSE Dropped

\* faulty variant: an ack request without a handler is answered
processIncomingAnswersUnknown(m) ==
  IF m.type = "emit" THEN
    IF ~Has(handlers, m.name) THEN Dropped
    ELSE IF ~handlers[m.name].hasArgs THEN [call |-> TRUE, send |-> FALSE, ackID |-> 0]
    ELSE IF ~Unmarshal(m.args, handlers[m.name].argType) THEN Dropped
    ELSE [call |-> TRUE, send |-> FALSE, ackID |-> 0]
  ELSE IF m.type = "ackreq" THEN
    IF ~Has(handlers, m.name) THEN [call |-> FALSE, send |-> TRUE, ackID |-> m.ackID]
    ELSE IF ~handlers[m.name].out THEN Dropped
    ELSE IF handlers[m.name].hasArgs /\ ~Unmarshal(m.args, handlers[m.name].argType)
      THEN Dropped
    ELSE [call |-> TRUE, send |-> TRUE, ackID |-> m.ackID]
  ELSE Dropped

\* what processIncoming does with message m: whether it calls the handler and
\* whether it sends an ack response, and with which ack id
processIncoming(m) ==
  IF m.type = "emit" THEN
    IF ~Has(handlers, m.name) THEN Dropped
    ELSE IF ~handlers[m.name].hasArgs THEN [call |-> TRUE, send |-> FALSE, ackID |-> 0]
    ELSE IF ~Unmarshal(m.args, handlers[m.name].argType) THEN Dropped
    ELSE [call |-> TRUE, send |-> FALSE, ackID |-> 0]
  ELSE IF m.type = "ackreq" THEN
    IF ~Has(handlers, m.name) \/ ~handlers[m.name].out THEN Dropped
    ELSE IF handlers[m.name].hasArgs /\ ~Unmarshal(m.args, handlers[m.name].argType)
      THEN Dropped
    ELSE [call |-> TRUE, send |-> TRUE, ackID |-> m.ackID]
  ELSE Dropped

\* values a user handler may return
Ret == {"OK", "err"}
RetOf(m) == IF Has(handlers, m.name) /\ handlers[m.name].out THEN Ret ELSE {"none"}

AckResponse(id, value) == [type |-> "ackresp", ackID |-> id, args |-> value]

\* a polling client learns its sid from the open packet, which PollingWriter
\* delivers after setupEventLoop has returned (ServeHTTP line 414); a websocket
\* client can write as soon as the socket is open
ClientCanSend(c) == kind[c] = "websocket" \/ pc[c] = "done"

\* one iteration of the inbound loop on an event or ack request packet: the
\* handler runs synchronously on the loop
inLoopMessage(c, m, ret) ==
  /\ inl[c] = "run"
  /\ alive[c]
  /\ ClientCanSend(c)
  /\ Len(recv[c]) < MaxEvents
  /\ ret \in RetOf(m)
  /\ LET r == processIncoming(m) IN
       /\ recv' = [recv EXCEPT ![c] = Append(@, m)]
       /\ calls' = [calls EXCEPT ![c] =
                      IF r.call
                        THEN Append(@, [type |-> m.type, name |-> m.name,
                                        args |-> m.args, ret |-> ret])
                      ELSE @]
       /\ outC' = [outC EXCEPT ![c] =
                      IF r.send THEN Append(@, AckResponse(r.ackID, ret)) ELSE @]
  /\ UNCHANGED <<auxVars, regVars, handlers, bcVars, kind, sid, alive, stubbed, pc, pollingChannel,
                 inl, disc, purgedFrom, userConn, userDisc>>

(***************************************************************************)
(* Room registry: Join and Leave of a channel.                             *)
(***************************************************************************)
\* the application holds the channel: it was registered in the sid index, or a
\* user handler was invoked with it
Handed(c) ==
  \/ pc[c] \in {"registered", "done", "u_registered", "u_signalled", "u_done"}
  \/ calls[c] # <<>>
  \/ userDisc[c] > 0

\* the read operations of the registry and the lock each takes (RLock)
RoomOps == {"Amount", "List", "BroadcastTo", "CountRooms"}
SidOps == {"GetChannel", "BroadcastToAll", "CountChannels"}
LockOf(op) == IF op \in RoomOps THEN "channelsMu" ELSE "sidsMu"
\* the application tasks holding the read side of a lock
Readers(lock) == {a \in Caller : rop[a].at = "rlocked" /\ LockOf(rop[a].op) = lock}

Join(c, room) ==
  /\ Handed(c)
  /\ channelsMu = Free
  /\ Readers("channelsMu") = {}
  /\ channels' = Put(channels, room, RoomChannels(room) \cup {c})
  /\ rooms' = Put(rooms, c, ChannelRooms(c) \cup {room})
  /\ UNCHANGED <<auxVars, sids, channelsMu, handlers, bcVars, chanVars, userVars>>

Leave(c, room) ==
  /\ Handed(c)
  /\ channelsMu = Free
  /\ Readers("channelsMu") = {}
  /\ channels' = IF ~Has(channels, room) THEN channels
                 ELSE IF channels[room] \ {c} = {} THEN Del(channels, room)
                 ELSE Put(channels, room, channels[room] \ {c})
  /\ rooms' = IF Has(rooms, c) THEN Put(rooms, c, rooms[c] \ {room}) ELSE rooms
  /\ UNCHANGED <<auxVars, sids, channelsMu, handlers, bcVars, chanVars, userVars>>

\* Server.Amount(room): the number of channels joined to the room
Amount(room) == Cardinality(RoomChannels(room))
\* Server.CountRooms(): the number of keys of the room->channels index
CountRooms == Cardinality(DOMAIN channels)

(***************************************************************************)
(* Closing a channel and the disconnection event.                          *)
(***************************************************************************)
\* shutdown completes every outstanding ack slot with ChannelClosed
FailPending(cs) ==
  [i \in DOMAIN cs |-> IF cs[i].st = "waiting" THEN [cs[i] EXCEPT !.st = "shut"] ELSE cs[i]]

\* the channel closes (close packet, GetMessage error, write error, ping
\* timeout or Close()): the inbound loop exits, the queue is drained, the
\* pending acks fail and the disconnection event is dispatched; closing a
\* closed channel does nothing. The Close call on the transport's connection
\* is a call of its own (Close of the polling connection below)
close(c) ==
  /\ inl[c] = "run"
  /\ alive[c]
  /\ alive' = [alive EXCEPT ![c] = FALSE]
  /\ inl' = [inl EXCEPT ![c] = "exit"]
  /\ outC' = [outC EXCEPT ![c] = <<>>]
  /\ disc' = [disc EXCEPT ![c] = "start"]
  /\ ackCalls' = [ackCalls EXCEPT ![c] = FailPending(@)]
  /\ UNCHANGED <<ackTable, ackSend, written, lockVars, running, pollVars>>
  /\ UNCHANGED <<regVars, handlers, bcVars, kind, sid, stubbed, pc, pollingChannel, userVars,
                 purgedFrom>>

\* faulty variant: the loop over the channel's rooms stops after one room
PurgeChannelsOne(c) ==
  IF ~Has(rooms, c) \/ rooms[c] \cap DOMAIN channels = {} THEN channels
  ELSE LET r1 == CHOOSE x \in rooms[c] \cap DOMAIN channels : TRUE IN
       IF channels[r1] \ {c} = {} THEN Del(channels, r1)
       ELSE Put(channels, r1, channels[r1] \ {c})
\* faulty variant: a room the channel was the last member of keeps its key
PurgeChannelsKeepEmpty(c) ==
  IF ~Has(rooms, c) THEN channels
  ELSE [r \in DOMAIN channels |-> IF r \in rooms[c] THEN channels[r] \ {c} ELSE channels[r]]
\* onDisconnection lines 302-315: the channel leaves every room it is in
PurgeChannels(c) ==
  IF ~Has(rooms, c) THEN channels
  ELSE [r \in {x \in DOMAIN channels : ~(x \in rooms[c] /\ channels[x] \ {c} = {})} |->
          IF r \in rooms[c] THEN channels[r] \ {c} ELSE channels[r]]
\* faulty variant: the channel's entry of the channel->rooms index is kept
PurgeRoomsKept(c) == rooms
PurgeRooms(c) == Del(rooms, c)

\* onDisconnection lines 293-315: take channelsMu and purge the rooms
onDisconnectionPurge(c) ==
  /\ disc[c] = "start"
  /\ channelsMu = Free
  /\ channelsMu' = c
  /\ channels' = PurgeChannels(c)
  /\ rooms' = PurgeRooms(c)
  /\ purgedFrom' = [purgedFrom EXCEPT ![c] = ChannelRooms(c)]
  /\ disc' = [disc EXCEPT ![c] = "purged"]
  /\ UNCHANGED <<auxVars, sids, handlers, bcVars, kind, sid, alive, stubbed, outC, pc, pollingChannel,
                 inl, userVars>>

\* onDisconnection lines 296-300: the deferred removal from the sid index
onDisconnectionSid(c) ==
  /\ disc[c] = "purged"
  /\ sids' = Del(sids, sid[c])
  /\ disc' = [disc EXCEPT ![c] = "sidgone"]
  /\ UNCHANGED <<auxVars, channels, rooms, channelsMu, handlers, bcVars, kind, sid, alive, stubbed,
                 outC, pc, pollingChannel, inl, userVars, purgedFrom>>

\* onDisconnection line 294: the deferred unlock of channelsMu
onDisconnectionUnlock(c) ==
  /\ disc[c] = "sidgone"
  /\ channelsMu = c
  /\ channelsMu' = Free
  /\ purgedFrom' = [purgedFrom EXCEPT ![c] = {}]
  /\ disc' = [disc EXCEPT ![c] = "cleaned"]
  /\ UNCHANGED <<auxVars, channels, rooms, sids, handlers, bcVars, kind, sid, alive, stubbed, outC,
                 pc, pollingChannel, inl, userVars>>

\* faulty variant: the user's handler runs before onDisconnection
callHandlerUserDisconnectionFirst(c) ==
  /\ disc[c] = "start"
  /\ userDisc[c] = 0
  /\ userDisc' = [userDisc EXCEPT ![c] = IF Has(handlers, OnDisconnection) THEN @ + 1 ELSE @]
  /\ UNCHANGED <<auxVars, regVars, handlers, bcVars, chanVars, userConn, recv, calls>>

\* callHandler lines 70-76 for the disconnection event: the user's handler
callHandlerUserDisconnection(c) ==
  /\ disc[c] = "cleaned"
  /\ userDisc' = [userDisc EXCEPT ![c] = IF Has(handlers, OnDisconnection) THEN @ + 1 ELSE @]
  /\ disc' = [disc EXCEPT ![c] = "done"]
  /\ UNCHANGED <<auxVars, regVars, handlers, bcVars, kind, sid, alive, stubbed, outC, pc,
                 pollingChannel, inl, userConn, recv, calls, purgedFrom>>

(***************************************************************************)
(* Transport upgrade: Server.upgradeEventLoop.                             *)
(***************************************************************************)
\* lines 365-385: look the session up, build the websocket channel, start its
\* loops; an unknown sid returns without a channel
upgradeEventLoop(c, s) ==
  /\ pc[c] = "free"
  /\ Has(sids, s)
  /\ pollingChannel' = [pollingChannel EXCEPT ![c] = sids[s]]
  /\ kind' = [kind EXCEPT ![c] = "websocket"]
  /\ sid' = [sid EXCEPT ![c] = s]
  /\ alive' = [alive EXCEPT ![c] = TRUE]
  /\ inl' = [inl EXCEPT ![c] = "run"]
  /\ pc' = [pc EXCEPT ![c] = "u_started"]
  /\ UNCHANGED <<auxVars, regVars, handlers, bcVars, stubbed, outC, disc, purgedFrom, userVars>>

\* line 388: onConnection(c) points the sid index at the new channel
upgradeOnConnection(c) ==
  /\ pc[c] = "u_started"
  /\ onConnection(c)
  /\ pc' = [pc EXCEPT ![c] = "u_registered"]
  /\ UNCHANGED <<auxVars, channels, rooms, channelsMu, handlers, bcVars, kind, sid, alive, stubbed,
                 outC, pollingChannel, inl, disc, purgedFrom, userVars>>

\* the inbound loop of the new channel reads the probe ping, answers it and
\* offers the upgraded signal on the unbuffered upgradedC
inLoopProbe(c) ==
  /\ inl[c] = "run"
  /\ alive[c]
  /\ pc[c] \in {"u_started", "u_registered"}
  /\ inl' = [inl EXCEPT ![c] = "probe"]
  /\ outC' = [outC EXCEPT ![c] = Append(@, [type |-> "pongprobe"])]
  /\ UNCHANGED <<auxVars, regVars, handlers, bcVars, kind, sid, alive, stubbed, pc, pollingChannel,
                 disc, purgedFrom, userVars>>

\* line 391: <-c.upgradedC, the rendezvous with the inbound loop's send
upgradeSignal(c) ==
  /\ pc[c] = "u_registered"
  /\ inl[c] = "probe"
  /\ inl' = [inl EXCEPT ![c] = "run"]
  /\ pc' = [pc EXCEPT ![c] = "u_signalled"]
  /\ UNCHANGED <<auxVars, regVars, handlers, bcVars, kind, sid, alive, stubbed, outC, pollingChannel,
                 disc, purgedFrom, userVars>>

\* stub retires the polling channel: it is closed, its queue discarded and its
\* reader released, and no disconnection event is dispatched
stub(p) ==
  /\ stubbed' = [stubbed EXCEPT ![p] = TRUE]
  /\ IF alive[p]
       THEN /\ alive' = [alive EXCEPT ![p] = FALSE]
            /\ outC' = [outC EXCEPT ![p] = <<>>]
            /\ inl' = [inl EXCEPT ![p] = "exit"]
       ELSE UNCHANGED <<alive, outC, inl>>

\* faulty variant: the polling channel is stubbed without waiting for the
\* upgraded signal
upgradeStubNoWait(c) ==
  /\ pc[c] = "u_registered"
  /\ stub(pollingChannel[c])
  /\ pc' = [pc EXCEPT ![c] = "u_done"]
  /\ UNCHANGED <<auxVars, regVars, handlers, bcVars, kind, sid, pollingChannel, disc, purgedFrom, userVars>>

\* line 392: pollingChannel.stub()
upgradeStub(c) ==
  /\ pc[c] = "u_signalled"
  /\ stub(pollingChannel[c])
  /\ pc' = [pc EXCEPT ![c] = "u_done"]
  /\ UNCHANGED <<auxVars, regVars, handlers, bcVars, kind, sid, pollingChannel, disc, purgedFrom, userVars>>

(***************************************************************************)
(* Broadcast fan-out: Server.BroadcastTo and Server.BroadcastToAll.        *)
(***************************************************************************)
\* bound on the number of broadcast calls
MaxBroadcasts == 2

\* faulty variant: the fan-out stops after the first live member
BroadcastToTargetsFirst(room) ==
  LET live == {cn \in RoomChannels(room) : alive[cn]} IN
  IF live = {} THEN {} ELSE {CHOOSE cn \in live : TRUE}
\* faulty variant: the fan-out skips the IsAlive check
BroadcastToTargetsAll(room) == RoomChannels(room)
\* BroadcastTo lines 260-269: the channels of the room that are alive; a
\* missing room gives none
BroadcastToTargets(room) ==
  IF ~Has(channels, room) THEN {}
  ELSE {cn \in channels[room] : alive[cn]}

\* BroadcastToAll lines 277-281: the channels of the sid index that are alive
BroadcastToAllTargets == {cn \in {sids[s] : s \in DOMAIN sids} : alive[cn]}

\* go cn.Emit(name, payload) for every target: one new Emit task each
Dispatch(targets, name, payload) ==
  emitTasks' = [cn \in Chan |->
                  IF cn \in targets
                    THEN Append(emitTasks[cn], [name |-> name, payload |-> payload])
                    ELSE emitTasks[cn]]

\* Server.BroadcastTo(room, name, payload), called through channel `caller`
\* (Channel.BroadcastTo hands the call to its server); runs under the read
\* lock of channelsMu and returns when the Emit tasks are started
BroadcastTo(caller, room, name, payload) ==
  /\ bcast.n < MaxBroadcasts
  /\ Handed(caller)
  /\ channelsMu = Free
  /\ Dispatch(BroadcastToTargets(room), name, payload)
  /\ bcast' = [op |-> "BroadcastTo", room |-> room, caller |-> caller, n |-> bcast.n + 1]
  /\ UNCHANGED <<auxVars, regVars, handlers, chanVars, userVars>>

\* Server.BroadcastToAll(method, payload); runs under the read lock of sidsMu
BroadcastToAll(name, payload) ==
  /\ bcast.n < MaxBroadcasts
  /\ Dispatch(BroadcastToAllTargets, name, payload)
  /\ bcast' = [op |-> "BroadcastToAll", room |-> "none", caller |-> NoChan, n |-> bcast.n + 1]
  /\ UNCHANGED <<auxVars, regVars, handlers, chanVars, userVars>>

\* an Emit task runs: the event is queued on the channel, or the send fails
\* (closed channel, full queue) and the error is dropped with the task
EmitRun(c, ok) ==
  /\ emitTasks[c] # <<>>
  /\ emitTasks' = [emitTasks EXCEPT ![c] = Tail(@)]
  /\ outC' = [outC EXCEPT ![c] =
                IF ok /\ alive[c]
                  THEN Append(@, [type |-> "emit", name |-> Head(emitTasks[c]).name,
                                  args |-> Head(emitTasks[c]).payload])
                  ELSE @]
  /\ UNCHANGED <<auxVars, regVars, handlers, kind, sid, alive, stubbed, pc, pollingChannel,
                 inl, disc, purgedFrom, userVars, bcast>>

(***************************************************************************)
(* The server under connection churn.                                      *)
(***************************************************************************)
\* the sid a websocket upgrade request carries: that of the polling session
UpgradeSids == {NewSid(c) : c \in {x \in NewChan : TransportOf(x) = "polling"}}

JoinPacket == [type |-> "emit", name |-> "join", args |-> "string", ackID |-> 0]

Next ==
  \/ \E c \in NewChan : setupEventLoop(c, TransportOf(c))
  \/ \E c \in Chan : callHandlerOnConnection(c)
  \/ \E c \in Chan : callHandlerUserConnection(c)
  \/ \E c \in Chan, room \in Room : Join(c, room)
  \/ \E c \in Chan, room \in Room : Leave(c, room)
  \/ \E c \in Chan : close(c)
  \/ \E c \in Chan : onDisconnectionPurge(c)
  \/ \E c \in Chan : onDisconnectionSid(c)
  \/ \E c \in Chan : onDisconnectionUnlock(c)
  \/ \E c \in Chan : callHandlerUserDisconnection(c)
  \/ \E c \in UpChan, s \in UpgradeSids : upgradeEventLoop(c, s)
  \/ \E c \in Chan : upgradeOnConnection(c)
  \/ \E c \in Chan : inLoopProbe(c)
  \/ \E c \in Chan : upgradeSignal(c)
  \/ \E c \in Chan : upgradeStub(c)

Spec == main /\ [][Next]_vars

(***************************************************************************)
(* New sessions with inbound traffic: the setup of a session against the   *)
(* inbound loop it starts.                                                 *)
(***************************************************************************)
NextSession ==
  \/ \E c \in NewChan : setupEventLoop(c, TransportOf(c))
  \/ \E c \in NewChan : callHandlerOnConnection(c)
  \/ \E c \in NewChan : callHandlerUserConnection(c)
  \/ \E c \in NewChan : inLoopMessage(c, JoinPacket, "OK")
  \/ \E c \in NewChan, room \in Room : Join(c, room)
  \/ \E c \in NewChan : close(c)
  \/ \E c \in NewChan : onDisconnectionPurge(c)
  \/ \E c \in NewChan : onDisconnectionSid(c)
  \/ \E c \in NewChan : onDisconnectionUnlock(c)
  \/ \E c \in NewChan : callHandlerUserDisconnection(c)

SpecSession == main /\ [][NextSession]_vars

(***************************************************************************)
(* Broadcasts among three connected sessions.                              *)
(***************************************************************************)
\* three new sessions are set up: registered, connection handler run
InitBroadcast ==
  /\ channels = EmptyMap
  /\ rooms = EmptyMap
  /\ sids = [s \in Sid |-> CHOOSE c \in Chan : NewSid(c) = s]
  /\ channelsMu = Free
  /\ handlers = ExampleHandlers
  /\ kind = [c \in Chan |-> TransportOf(c)]
  /\ sid = [c \in Chan |-> NewSid(c)]
  /\ alive = [c \in Chan |-> TRUE]
  /\ stubbed = [c \in Chan |-> FALSE]
  /\ outC = [c \in Chan |-> <<OpenPacket(c), EmptyPacket>>]
  /\ pc = [c \in Chan |-> "done"]
  /\ pollingChannel = [c \in Chan |-> NoChan]
  /\ inl = [c \in Chan |-> "run"]
  /\ disc = [c \in Chan |-> "none"]
  /\ purgedFrom = [c \in Chan |-> {}]
  /\ userConn = [c \in Chan |-> 1]
  /\ userDisc = [c \in Chan |-> 0]
  /\ recv = [c \in Chan |-> <<>>]
  /\ calls = [c \in Chan |-> <<>>]
  /\ emitTasks = [c \in Chan |-> <<>>]
  /\ bcast = NoBroadcast
  /\ TaskInit
  /\ sessions = {NewSid(c) : c \in {x \in Chan : TransportOf(x) = "polling"}}

NextBroadcast ==
  \/ \E c \in Chan : Join(c, "roomX")
  \/ \E c \in Chan : Leave(c, "roomX")
  \/ \E c \in Chan : close(c)
  \/ \E c \in Chan, room \in Room : BroadcastTo(c, room, "tick", 1)
  \/ BroadcastToAll("tick", 1)
  \/ \E c \in Chan, ok \in BOOLEAN : EmitRun(c, ok)

SpecBroadcast == InitBroadcast /\ [][NextBroadcast]_vars

(***************************************************************************)
(* Dispatch of inbound packets on one connected channel.                   *)
(***************************************************************************)
\* the example server's handlers and two more shapes: no argument with a
\* return value, an argument without a return value
DispatchHandlers ==
  [n \in (DOMAIN ExampleHandlers) \cup {"bye", "log"} |->
     IF n \in DOMAIN ExampleHandlers THEN ExampleHandlers[n]
     ELSE IF n = "bye" THEN [hasArgs |-> FALSE, argType |-> "none", out |-> TRUE]
     ELSE [hasArgs |-> TRUE, argType |-> "string", out |-> FALSE]]

\* the channel the packets arrive on
DispatchChan == "c2"

\* event names, args and ack ids a client sends
PacketNames == {"join", "send", "bye", "log", OnConnection, "unknown"}
EmitArgs == {"string", "garbage"}
AckArgs == {"string", "number"}
AckIDs == {1, 2}
DispatchPackets ==
  [type : {"emit"}, name : PacketNames, args : EmitArgs, ackID : {0}]
    \cup [type : {"ackreq"}, name : PacketNames, args : AckArgs, ackID : AckIDs]

\* one websocket session is set up; the handlers were registered before
InitDispatch ==
  /\ channels = EmptyMap
  /\ rooms = EmptyMap
  /\ sids = [s \in {NewSid(DispatchChan)} |-> DispatchChan]
  /\ channelsMu = Free
  /\ handlers = DispatchHandlers
  /\ kind = [c \in Chan |-> IF c = DispatchChan THEN TransportOf(c) ELSE "none"]
  /\ sid = [c \in Chan |-> IF c = DispatchChan THEN NewSid(c) ELSE NoSid]
  /\ alive = [c \in Chan |-> c = DispatchChan]
  /\ stubbed = [c \in Chan |-> FALSE]
  /\ outC = [c \in Chan |-> IF c = DispatchChan THEN <<OpenPacket(c), EmptyPacket>> ELSE <<>>]
  /\ pc = [c \in Chan |-> IF c = DispatchChan THEN "done" ELSE "free"]
  /\ pollingChannel = [c \in Chan |-> NoChan]
  /\ inl = [c \in Chan |-> IF c = DispatchChan THEN "run" ELSE "none"]
  /\ disc = [c \in Chan |-> "none"]
  /\ purgedFrom = [c \in Chan |-> {}]
  /\ userConn = [c \in Chan |-> IF c = DispatchChan THEN 1 ELSE 0]
  /\ userDisc = [c \in Chan |-> 0]
  /\ recv = [c \in Chan |-> <<>>]
  /\ calls = [c \in Chan |-> <<>>]
  /\ emitTasks = [c \in Chan |-> <<>>]
  /\ bcast = NoBroadcast
  /\ AuxInit

NextDispatch ==
  \E m \in DispatchPackets, ret \in Ret \cup {"none"} : inLoopMessage(DispatchChan, m, ret)

SpecDispatch == InitDispatch /\ [][NextDispatch]_vars
(***************************************************************************)
(* The outbound loop and the packets a new session's client is written.    *)
(***************************************************************************)
\* one iteration of the outbound loop: the head of the queue is written to
\* the connection
outLoopWrite(c) ==
  /\ pc[c] # "free"
  /\ outC[c] # <<>>
  /\ written' = [written EXCEPT ![c] = Append(@, Head(outC[c]))]
  /\ outC' = [outC EXCEPT ![c] = Tail(@)]
  /\ UNCHANGED <<ackVars, lockVars, running, pollVars>>
  /\ UNCHANGED <<regVars, handlers, bcVars, kind, sid, alive, stubbed, pc, pollingChannel,
                 inl, disc, purgedFrom, userVars>>

AckJoinPacket == [type |-> "ackreq", name |-> "join", args |-> "string", ackID |-> 1]

\* the first request of the only session of a run
setupOnlySession(c) ==
  /\ \A d \in Chan : pc[d] = "free"
  /\ setupEventLoop(c, TransportOf(c))

\* one new session, polling or websocket, with ack requests and broadcasts,
\* and its outbound loop
NextOpen ==
  \/ \E c \in NewChan : setupOnlySession(c)
  \/ \E c \in NewChan : callHandlerOnConnection(c)
  \/ \E c \in NewChan : callHandlerUserConnection(c)
  \/ \E c \in NewChan : inLoopMessage(c, AckJoinPacket, "OK")
  \/ BroadcastToAll("tick", 1)
  \/ \E c \in NewChan, ok \in BOOLEAN : EmitRun(c, ok)
  \/ \E c \in NewChan : outLoopWrite(c)
  \/ \E c \in NewChan : close(c)

SpecOpen == main /\ [][NextOpen]_vars

(***************************************************************************)
(* The locks of a dispatch, statement by statement: event.On,              *)
(* event.callHandler, event.findHandler, onConnection, onDisconnection and *)
(* the handler call of event.processIncoming. A channel has three tasks    *)
(* that dispatch: the request's task inside setupEventLoop, the inbound    *)
(* loop, and the task that closes the channel.                             *)
(***************************************************************************)
At(c, r, at) == tpc[c][r].at = at
Goto(c, r, at) == tpc' = [tpc EXCEPT ![c][r].at = at]

\* the locks task r of channel c holds; channelsMu is taken by the closing
\* task only
LocksHeldBy(c, r) ==
  (IF r = "close" /\ channelsMu = c THEN {"channelsMu"} ELSE {})
    \cup (IF sidsMu = <<c, r>> THEN {"sidsMu"} ELSE {})
    \cup (IF <<c, r>> \in handlersMu THEN {"handlersMu"} ELSE {})

\* the tasks that have called Lock() on a lock and wait for it: a waiting
\* writer keeps new readers out (sync.RWMutex)
Writers(lock) ==
  IF lock = "channelsMu" THEN {c \in Chan : At(c, "close", "disc_lock")}
  ELSE {c \in Chan : At(c, "ServeHTTP", "conn_lock") \/ At(c, "close", "disc_sidlock")}
\* the write side of a lock is held
Held(lock) == IF lock = "channelsMu" THEN channelsMu # Free ELSE sidsMu # NoTask

\* On lines 37-43: newHandler(f) succeeded and handlersMu.Lock() is called
On(name, f) ==
  /\ onCall.at = "idle"
  /\ onCall' = [at |-> "lock", name |-> name, f |-> f]
  /\ UNCHANGED <<ackVars, written, rop, tpc, handlersMu, sidsMu, heldAtCall, running, pollVars>>
  /\ UNCHANGED <<regVars, handlers, bcVars, chanVars, userVars>>

\* On line 43: handlersMu.Lock() returns when no reader holds the lock
OnLock ==
  /\ onCall.at = "lock"
  /\ handlersMu = {}
  /\ onCall' = [onCall EXCEPT !.at = "locked"]
  /\ UNCHANGED <<ackVars, written, rop, tpc, handlersMu, sidsMu, heldAtCall, running, pollVars>>
  /\ UNCHANGED <<regVars, handlers, bcVars, chanVars, userVars>>

\* On lines 44-48: the handler is stored under the name, handlersMu unlocked
OnUnlock ==
  /\ onCall.at = "locked"
  /\ handlers' = Put(handlers, onCall.name, onCall.f)
  /\ onCall' = IdleOn
  /\ UNCHANGED <<ackVars, written, rop, tpc, handlersMu, sidsMu, heldAtCall, running, pollVars>>
  /\ UNCHANGED <<regVars, bcVars, chanVars, userVars>>

\* the message a lifecycle dispatch stands for: callHandler has a name only
SystemPacket(name) == [type |-> "system", name |-> name, args |-> "none", ackID |-> 0]

\* setupEventLoop line 358: callHandler(c, OnConnection) is entered
callHandlerConnectionBegin(c) ==
  /\ pc[c] = "started"
  /\ At(c, "ServeHTTP", "idle")
  /\ tpc' = [tpc EXCEPT ![c]["ServeHTTP"] =
               [at |-> "conn_lock", name |-> OnConnection, m |-> SystemPacket(OnConnection)]]
  /\ UNCHANGED <<ackVars, written, rop, onCall, handlersMu, sidsMu, heldAtCall, running, pollVars>>
  /\ UNCHANGED <<regVars, handlers, bcVars, chanVars, userVars>>

\* onConnection line 286: c.server.sidsMu.Lock()
onConnectionLock(c) ==
  /\ At(c, "ServeHTTP", "conn_lock")
  /\ sidsMu = NoTask
  /\ Readers("sidsMu") = {}
  /\ sidsMu' = <<c, "ServeHTTP">>
  /\ Goto(c, "ServeHTTP", "conn_locked")
  /\ UNCHANGED <<ackVars, written, rop, onCall, handlersMu, heldAtCall, running, pollVars>>
  /\ UNCHANGED <<regVars, handlers, bcVars, chanVars, userVars>>

\* onConnection lines 287-288: the sid index entry is written, sidsMu unlocked
onConnectionUnlock(c) ==
  /\ At(c, "ServeHTTP", "conn_locked")
  /\ onConnection(c)
  /\ sidsMu' = NoTask
  /\ Goto(c, "ServeHTTP", "find")
  /\ UNCHANGED <<ackVars, written, rop, onCall, handlersMu, heldAtCall, running, pollVars>>
  /\ UNCHANGED <<channels, rooms, channelsMu, handlers, bcVars, chanVars, userVars>>

\* the channel closes, as in close, and callHandler(c, OnDisconnection) is
\* entered on the closing task
callHandlerDisconnectionBegin(c) ==
  /\ inl[c] = "run"
  /\ alive[c]
  /\ At(c, "close", "idle")
  /\ alive' = [alive EXCEPT ![c] = FALSE]
  /\ inl' = [inl EXCEPT ![c] = "exit"]
  /\ outC' = [outC EXCEPT ![c] = <<>>]
  /\ disc' = [disc EXCEPT ![c] = "start"]
  /\ ackCalls' = [ackCalls EXCEPT ![c] = FailPending(@)]
  /\ tpc' = [tpc EXCEPT ![c]["close"] =
               [at |-> "disc_lock", name |-> OnDisconnection,
                m |-> SystemPacket(OnDisconnection)]]
  /\ UNCHANGED <<ackTable, ackSend, written, rop, onCall, handlersMu, sidsMu, heldAtCall,
                 running, pollVars>>
  /\ UNCHANGED <<regVars, handlers, bcVars, kind, sid, stubbed, pc, pollingChannel,
                 purgedFrom, userVars>>

\* onDisconnection line 293: c.server.channelsMu.Lock()
onDisconnectionLock(c) ==
  /\ At(c, "close", "disc_lock")
  /\ channelsMu = Free
  /\ Readers("channelsMu") = {}
  /\ channelsMu' = c
  /\ Goto(c, "close", "disc_locked")
  /\ UNCHANGED <<ackVars, written, rop, onCall, handlersMu, sidsMu, heldAtCall, running, pollVars>>
  /\ UNCHANGED <<channels, rooms, sids, handlers, bcVars, chanVars, userVars>>

\* onDisconnection lines 302-315: the channel leaves its rooms
onDisconnectionRooms(c) ==
  /\ At(c, "close", "disc_locked")
  /\ channels' = PurgeChannels(c)
  /\ rooms' = PurgeRooms(c)
  /\ Goto(c, "close", "disc_sidlock")
  /\ UNCHANGED <<ackVars, written, rop, onCall, handlersMu, sidsMu, heldAtCall, running, pollVars>>
  /\ UNCHANGED <<sids, channelsMu, handlers, bcVars, chanVars, userVars>>

\* onDisconnection line 297, in the deferred function: sidsMu.Lock()
onDisconnectionSidLock(c) ==
  /\ At(c, "close", "disc_sidlock")
  /\ sidsMu = NoTask
  /\ Readers("sidsMu") = {}
  /\ sidsMu' = <<c, "close">>
  /\ Goto(c, "close", "disc_sidlocked")
  /\ UNCHANGED <<ackVars, written, rop, onCall, handlersMu, heldAtCall, running, pollVars>>
  /\ UNCHANGED <<regVars, handlers, bcVars, chanVars, userVars>>

\* onDisconnection lines 298-299: the sid entry is deleted, sidsMu unlocked
onDisconnectionSidUnlock(c) ==
  /\ At(c, "close", "disc_sidlocked")
  /\ sids' = Del(sids, sid[c])
  /\ sidsMu' = NoTask
  /\ Goto(c, "close", "disc_unlock")
  /\ UNCHANGED <<ackVars, written, rop, onCall, handlersMu, heldAtCall, running, pollVars>>
  /\ UNCHANGED <<channels, rooms, channelsMu, handlers, bcVars, chanVars, userVars>>

\* faulty variant: onDisconnection returns with channelsMu locked
onDisconnectionReleaseMissing(c) == c
\* onDisconnection line 294: the deferred channelsMu.Unlock()
onDisconnectionRelease(c) == Free

\* onDisconnection returns to callHandler
onDisconnectionReturn(c) ==
  /\ At(c, "close", "disc_unlock")
  /\ channelsMu' = onDisconnectionRelease(c)
  /\ Goto(c, "close", "find")
  /\ UNCHANGED <<ackVars, written, rop, onCall, handlersMu, sidsMu, heldAtCall, running, pollVars>>
  /\ UNCHANGED <<channels, rooms, sids, handlers, bcVars, chanVars, userVars>>

\* the inbound loop enters processIncoming with an event or ack request
processIncomingBegin(c, m) ==
  /\ inl[c] = "run"
  /\ alive[c]
  /\ ClientCanSend(c)
  /\ At(c, "inLoop", "idle")
  /\ m.type \in {"emit", "ackreq"}
  /\ tpc' = [tpc EXCEPT ![c]["inLoop"] = [at |-> "find", name |-> m.name, m |-> m]]
  /\ UNCHANGED <<ackVars, written, rop, onCall, handlersMu, sidsMu, heldAtCall, running, pollVars>>
  /\ UNCHANGED <<regVars, handlers, bcVars, chanVars, userVars>>

\* findHandler line 53: e.handlersMu.RLock(), which waits while On holds the
\* lock or waits for it
findHandlerRLock(c, r) ==
  /\ At(c, r, "find")
  /\ onCall.at = "idle"
  /\ handlersMu' = handlersMu \cup {<<c, r>>}
  /\ Goto(c, r, "found")
  /\ UNCHANGED <<ackVars, written, rop, onCall, sidsMu, heldAtCall, running, pollVars>>
  /\ UNCHANGED <<regVars, handlers, bcVars, chanVars, userVars>>

\* faulty variant: findHandler returns with the read lock still held
findHandlerRUnlockMissing(c, r) == handlersMu
\* findHandler line 55: e.handlersMu.RUnlock()
findHandlerRUnlock(c, r) == handlersMu \ {<<c, r>>}

\* the dispatch of task r goes on to f.call: callHandler when the name has a
\* handler (lines 70-76), processIncoming when it has one and the checks of
\* lines 93-104 and 111-122 pass
CallsHandler(r, m) ==
  IF r = "inLoop" THEN processIncoming(m).call ELSE Has(handlers, m.name)

\* findHandler lines 54-56: the lookup; a dispatch that does not reach f.call
\* returns, and the lifecycle call it belongs to is over
findHandlerReturn(c, r) ==
  /\ At(c, r, "found")
  /\ handlersMu' = findHandlerRUnlock(c, r)
  /\ IF CallsHandler(r, tpc[c][r].m)
       THEN /\ Goto(c, r, "call")
            /\ UNCHANGED <<pc, disc>>
       ELSE /\ tpc' = [tpc EXCEPT ![c][r] = IdleTask]
            /\ pc' = [pc EXCEPT ![c] = IF r = "ServeHTTP" THEN "done" ELSE @]
            /\ disc' = [disc EXCEPT ![c] = IF r = "close" THEN "done" ELSE @]
  /\ UNCHANGED <<ackVars, written, rop, onCall, sidsMu, heldAtCall, running, pollVars>>
  /\ UNCHANGED <<regVars, handlers, bcVars, kind, sid, alive, stubbed, outC, pollingChannel,
                 inl, purgedFrom, userVars>>

\* f.call(c, ...): the user's handler runs on the dispatching task and
\* returns ret; processIncoming line 133 answers an ack request
handlerCall(c, r, ret) ==
  /\ At(c, r, "call")
  /\ ret \in RetOf(tpc[c][r].m)
  /\ heldAtCall' = heldAtCall \cup
                      {[chan |-> c, name |-> tpc[c][r].name, locks |-> LocksHeldBy(c, r)]}
  /\ tpc' = [tpc EXCEPT ![c][r] = IdleTask]
  /\ pc' = [pc EXCEPT ![c] = IF r = "ServeHTTP" THEN "done" ELSE @]
  /\ disc' = [disc EXCEPT ![c] = IF r = "close" THEN "done" ELSE @]
  /\ userConn' = [userConn EXCEPT ![c] = IF tpc[c][r].name = OnConnection THEN @ + 1 ELSE @]
  /\ userDisc' = [userDisc EXCEPT ![c] =
                    IF tpc[c][r].name = OnDisconnection THEN @ + 1 ELSE @]
  /\ outC' = [outC EXCEPT ![c] =
                IF r = "inLoop" /\ processIncoming(tpc[c][r].m).send /\ alive[c]
                  THEN Append(@, AckResponse(tpc[c][r].m.ackID, ret))
                  ELSE @]
  /\ UNCHANGED <<ackVars, written, rop, onCall, handlersMu, sidsMu, running, pollVars>>
  /\ UNCHANGED <<regVars, handlers, bcVars, kind, sid, alive, stubbed, pollingChannel,
                 inl, purgedFrom, recv, calls>>

\* the broadcast calls that have been entered and have not returned
Broadcasting == {a \in Caller : rop[a].op \in {"BroadcastTo", "BroadcastToAll"}}

\* an application task calls a read operation of the registry; a broadcast
\* is one of the counted broadcast calls
RegistryCall(a, op) ==
  /\ rop[a].at = "idle"
  /\ op \in {"BroadcastTo", "BroadcastToAll"}
       => bcast.n + Cardinality(Broadcasting) < MaxBroadcasts
  /\ rop' = [rop EXCEPT ![a] = [at |-> "rlock", op |-> op]]
  /\ UNCHANGED <<ackVars, written, tpc, onCall, handlersMu, sidsMu, heldAtCall, running, pollVars>>
  /\ UNCHANGED <<regVars, handlers, bcVars, chanVars, userVars>>

\* the first statement of the operation: channelsMu.RLock() (lines 229, 237,
\* 257, 448) or sidsMu.RLock() (lines 216, 274, 441)
RegistryRLock(a) ==
  /\ rop[a].at = "rlock"
  /\ ~Held(LockOf(rop[a].op))
  /\ Writers(LockOf(rop[a].op)) = {}
  /\ rop' = [rop EXCEPT ![a].at = "rlocked"]
  /\ UNCHANGED <<ackVars, written, tpc, onCall, handlersMu, sidsMu, heldAtCall, running, pollVars>>
  /\ UNCHANGED <<regVars, handlers, bcVars, chanVars, userVars>>

\* the channels a broadcast reads under its lock, for room "roomX"
RegistryTargets(op) ==
  IF op = "BroadcastTo" THEN BroadcastToTargets("roomX") ELSE BroadcastToAllTargets

\* the body of the operation and its deferred RUnlock: the registry is read
\* and left as it is, a broadcast starts its Emit tasks, and the operation
\* returns
RegistryReturn(a) ==
  /\ rop[a].at = "rlocked"
  /\ rop' = [rop EXCEPT ![a] = IdleOp]
  /\ IF rop[a].op \in {"BroadcastTo", "BroadcastToAll"}
       THEN /\ Dispatch(RegistryTargets(rop[a].op), "tick", 1)
            /\ bcast' = [op |-> rop[a].op,
                         room |-> IF rop[a].op = "BroadcastTo" THEN "roomX" ELSE "none",
                         caller |-> NoChan, n |-> bcast.n + 1]
       ELSE UNCHANGED bcVars
  /\ UNCHANGED <<ackVars, written, tpc, onCall, handlersMu, sidsMu, heldAtCall, running, pollVars>>
  /\ UNCHANGED <<regVars, handlers, chanVars, userVars>>

\* two sessions register, the polling session closes and is cleaned up and
\* channels join a room, against the read operations of an application task
NextRegistry ==
  \/ \E c \in NewChan : setupEventLoop(c, TransportOf(c))
  \/ \E c \in NewChan : callHandlerConnectionBegin(c)
  \/ \E c \in NewChan : onConnectionLock(c)
  \/ \E c \in NewChan : onConnectionUnlock(c)
  \/ callHandlerDisconnectionBegin(PollChan)
  \/ onDisconnectionLock(PollChan)
  \/ onDisconnectionRooms(PollChan)
  \/ onDisconnectionSidLock(PollChan)
  \/ onDisconnectionSidUnlock(PollChan)
  \/ onDisconnectionReturn(PollChan)
  \/ \E c \in NewChan, r \in Role : findHandlerRLock(c, r)
  \/ \E c \in NewChan, r \in Role : findHandlerReturn(c, r)
  \/ \E c \in NewChan, r \in Role : handlerCall(c, r, "none")
  \/ \E c \in NewChan : Join(c, "roomX")
  \/ \E a \in Caller, op \in RoomOps \cup SidOps : RegistryCall(a, op)
  \/ \E a \in Caller : RegistryRLock(a)
  \/ \E a \in Caller : RegistryReturn(a)

SpecRegistry == main /\ [][NextRegistry]_vars

\* the events a client sends in the runs of the lock discipline: a join, a
\* join whose args do not decode, and an event nobody handles
LockPackets ==
  {JoinPacket, [JoinPacket EXCEPT !.args = "garbage"], [JoinPacket EXCEPT !.name = "unknown"]}

\* handlers are registered while a websocket session is set up, receives
\* events, joins a room and closes
NextLocks ==
  \/ \E name \in {OnConnection, OnDisconnection, "join"} : On(name, ExampleHandlers[name])
  \/ OnLock
  \/ OnUnlock
  \/ \E c \in {DispatchChan} : setupEventLoop(c, TransportOf(c))
  \/ \E c \in {DispatchChan} : callHandlerConnectionBegin(c)
  \/ \E c \in {DispatchChan} : onConnectionLock(c)
  \/ \E c \in {DispatchChan} : onConnectionUnlock(c)
  \/ \E c \in {DispatchChan} : callHandlerDisconnectionBegin(c)
  \/ \E c \in {DispatchChan} : onDisconnectionLock(c)
  \/ \E c \in {DispatchChan} : onDisconnectionRooms(c)
  \/ \E c \in {DispatchChan} : onDisconnectionSidLock(c)
  \/ \E c \in {DispatchChan} : onDisconnectionSidUnlock(c)
  \/ \E c \in {DispatchChan} : onDisconnectionReturn(c)
  \/ \E c \in {DispatchChan}, m \in LockPackets : processIncomingBegin(c, m)
  \/ \E c \in {DispatchChan}, r \in Role : findHandlerRLock(c, r)
  \/ \E c \in {DispatchChan}, r \in Role : findHandlerReturn(c, r)
  \/ \E c \in {DispatchChan}, r \in Role, ret \in Ret \cup {"none"} : handlerCall(c, r, ret)
  \/ \E c \in {DispatchChan} : Join(c, "roomX")

SpecLocks == Init /\ [][NextLocks]_vars

(***************************************************************************)
(* Handler calls of one inbound loop, from their start to their return.    *)
(***************************************************************************)
\* faulty variant: the handler is started on a task of its own (go f.call)
processIncomingWaitsNot(m) == FALSE
\* processIncoming lines 92-106 and 123-126: f.call is a plain call, the
\* inbound loop's task is inside the handler until it returns
processIncomingWaits(m) == TRUE

\* the inbound loop takes the next packet when it is not inside a handler
LoopFree(c) == \A i \in DOMAIN running[c] : ~running[c][i].wait

\* the loop hands packet m to processIncoming, which starts its handler
inLoopDispatch(c, m) ==
  /\ inl[c] = "run"
  /\ alive[c]
  /\ ClientCanSend(c)
  /\ Len(recv[c]) < MaxEvents
  /\ LoopFree(c)
  /\ recv' = [recv EXCEPT ![c] = Append(@, m)]
  /\ running' = [running EXCEPT ![c] =
                    IF processIncoming(m).call
                      THEN Append(@, [k |-> Len(recv[c]) + 1, m |-> m,
                                      wait |-> processIncomingWaits(m)])
                      ELSE @]
  /\ UNCHANGED <<ackVars, written, lockVars, pollVars>>
  /\ UNCHANGED <<regVars, handlers, bcVars, chanVars, userConn, userDisc, calls>>

\* the i-th running handler returns; an ack request is answered
handlerReturn(c, i, ret) ==
  /\ i \in DOMAIN running[c]
  /\ ret \in RetOf(running[c][i].m)
  /\ LET h == running[c][i]
         r == processIncoming(h.m)
     IN /\ calls' = [calls EXCEPT ![c] =
                       Append(@, [type |-> h.m.type, name |-> h.m.name, args |-> h.m.args,
                                  ret |-> ret, k |-> h.k])]
        /\ outC' = [outC EXCEPT ![c] =
                      IF r.send /\ alive[c] THEN Append(@, AckResponse(r.ackID, ret)) ELSE @]
        /\ running' = [running EXCEPT ![c] =
                         SubSeq(@, 1, i - 1) \o SubSeq(@, i + 1, Len(@))]
  /\ UNCHANGED <<ackVars, written, lockVars, pollVars>>
  /\ UNCHANGED <<regVars, handlers, bcVars, kind, sid, alive, stubbed, pc, pollingChannel,
                 inl, disc, purgedFrom, userConn, userDisc, recv>>

NextOrder ==
  \/ \E m \in DispatchPackets : inLoopDispatch(DispatchChan, m)
  \/ \E i \in 1..MaxEvents, ret \in Ret \cup {"none"} : handlerReturn(DispatchChan, i, ret)

SpecOrder == InitDispatch /\ [][NextOrder]_vars

(***************************************************************************)
(* Ack registry: Channel.Ack and the ack responses of the client.          *)
(***************************************************************************)
\* bound on the Ack calls made on one channel
MaxAcks == 2

\* Ack(name, payload, timeout), steps 1 and 2: take the next ack id, install
\* the slot, enqueue the ack request; the caller then waits on the slot
Ack(c, name) ==
  /\ Handed(c)
  /\ alive[c]
  /\ Len(ackCalls[c]) < MaxAcks
  /\ LET id == Len(ackCalls[c]) + 1 IN
       /\ ackTable' = [ackTable EXCEPT ![c] = @ \cup {id}]
       /\ ackCalls' = [ackCalls EXCEPT ![c] = Append(@, [st |-> "waiting", got |-> "none"])]
       /\ outC' = [outC EXCEPT ![c] =
                     Append(@, [type |-> "ackreq", name |-> name, ackID |-> id])]
  /\ UNCHANGED <<ackSend, written, lockVars, running, pollVars>>
  /\ UNCHANGED <<regVars, handlers, bcVars, kind, sid, alive, stubbed, pc, pollingChannel,
                 inl, disc, purgedFrom, userVars>>

\* c.ack.obtain(id): the slot installed for the ack id, 0 when there is none
obtain(c, id) == IF id \in ackTable[c] THEN id ELSE 0

\* faulty variant: the waiter is looked up without regard to the ack id
processIncomingAckResponseAny(c, m) ==
  IF ackTable[c] = {} THEN 0 ELSE CHOOSE id \in ackTable[c] : TRUE
\* processIncoming line 137: the slot an ack response's args are sent to, 0
\* when obtain fails and the response is ignored
processIncomingAckResponse(c, m) == obtain(c, m.ackID)

\* ack responses a client sends: any ack id, also one never issued
AckRespIDs == 1..(MaxAcks + 1)
AckRespPackets == [type : {"ackresp"}, ackID : AckRespIDs, args : {"ra", "rb"}]

\* Ack, step 3: the wait completed with the response or with the shutdown;
\* the slot is removed and the call returns
AckReturn(c, id) ==
  /\ id \in DOMAIN ackCalls[c]
  /\ ackCalls[c][id].st \in {"delivered", "shut"}
  /\ ackTable' = [ackTable EXCEPT ![c] = @ \ {id}]
  /\ ackCalls' = [ackCalls EXCEPT ![c][id].st =
                    IF ackCalls[c][id].st = "delivered" THEN "success" ELSE "closed"]
  /\ UNCHANGED <<ackSend, written, lockVars, running, pollVars>>
  /\ UNCHANGED <<regVars, handlers, bcVars, chanVars, userVars>>

\* Ack, step 3: the wait timed out; the slot is removed and the call returns
\* AckTimeout
AckTimeout(c, id) ==
  /\ id \in DOMAIN ackCalls[c]
  /\ ackCalls[c][id].st = "waiting"
  /\ ackTable' = [ackTable EXCEPT ![c] = @ \ {id}]
  /\ ackCalls' = [ackCalls EXCEPT ![c][id].st = "timeout"]
  /\ UNCHANGED <<ackSend, written, lockVars, running, pollVars>>
  /\ UNCHANGED <<regVars, handlers, bcVars, chanVars, userVars>>

\* processIncoming lines 135-137 for an ack response: the slot is looked up;
\* without a slot the response is ignored
processIncomingObtain(c, m) ==
  /\ inl[c] = "run"
  /\ alive[c]
  /\ ClientCanSend(c)
  /\ Len(recv[c]) < MaxEvents
  /\ m.type = "ackresp"
  /\ ackSend[c] = NoSend
  /\ recv' = [recv EXCEPT ![c] = Append(@, m)]
  /\ ackSend' = [ackSend EXCEPT ![c] =
                   IF processIncomingAckResponse(c, m) # 0
                     THEN [id |-> processIncomingAckResponse(c, m), args |-> m.args]
                     ELSE NoSend]
  /\ UNCHANGED <<ackTable, ackCalls, written, lockVars, running, pollVars>>
  /\ UNCHANGED <<regVars, handlers, bcVars, chanVars, userConn, userDisc, calls>>

\* processIncoming line 139, ackC <- m.Args: the send completes with the
\* waiter that is at its receive
processIncomingSend(c) ==
  /\ ackSend[c] # NoSend
  /\ ackCalls[c][ackSend[c].id].st = "waiting"
  /\ ackCalls' = [ackCalls EXCEPT ![c][ackSend[c].id] =
                    [st |-> "delivered", got |-> ackSend[c].args]]
  /\ ackSend' = [ackSend EXCEPT ![c] = NoSend]
  /\ UNCHANGED <<ackTable, written, lockVars, running, pollVars>>
  /\ UNCHANGED <<regVars, handlers, bcVars, chanVars, userVars>>

\* Ack calls against the two steps of processIncoming on an ack response
NextAckSend ==
  \/ Ack(DispatchChan, "news")
  \/ \E m \in AckRespPackets : processIncomingObtain(DispatchChan, m)
  \/ processIncomingSend(DispatchChan)
  \/ \E id \in 1..(MaxAcks + 1) : AckReturn(DispatchChan, id)
  \/ \E id \in 1..(MaxAcks + 1) : AckTimeout(DispatchChan, id)

SpecAckSend == InitDispatch /\ [][NextAckSend]_vars

\* Ack calls and ack responses on one connected channel that closes
NextAck ==
  \/ Ack(DispatchChan, "news")
  \/ \E m \in AckRespPackets : processIncomingObtain(DispatchChan, m)
  \/ processIncomingSend(DispatchChan)
  \/ \E id \in 1..(MaxAcks + 1) : AckReturn(DispatchChan, id)
  \/ \E id \in 1..(MaxAcks + 1) : AckTimeout(DispatchChan, id)
  \/ close(DispatchChan)

SpecAck == InitDispatch /\ [][NextAck]_vars

(***************************************************************************)
(* The polling connection: PollingWriter of each GET request against the   *)
(* WriteMessage calls, over the unbuffered channels eventsOutC, errors and *)
(* eventsInC of one PollingConnection.                                     *)
(***************************************************************************)
\* the statuses sent on polling.errors
noError == "0"
WriteError == "write failed"
\* the frames WriteMessage is called with: a packet, or protocol.MessageBlank
\* (PollingConnection.Close)
MessageBlank == "blank"
Frames == {"packet", MessageBlank}

\* StopMessage, and protocol.MessageClose as the client posts it; a text is a
\* sequence of tokens and ":" is a token of its own
StopMessage == <<"stop">>
MessageClose == <<"1">>
\* the bodies a client posts: the close packet, a ping, an event whose args
\* hold a colon, the sentinel's text, and a close packet without its length
PostBodies ==
  { <<"1", ":", "1">>, <<"1", ":", "2">>, <<"9", ":", "42", ":", "x">>,
    <<"4", ":", "stop">>, <<"1">> }

\* the first request of a polling session was served up to setupEventLoop
\* line 356: the connection is in the session map, the open sequence is
\* queued, the loops are started
InitPolling ==
  /\ channels = EmptyMap
  /\ rooms = EmptyMap
  /\ sids = EmptyMap
  /\ channelsMu = Free
  /\ handlers = ExampleHandlers
  /\ kind = [c \in Chan |-> IF c = PollChan THEN "polling" ELSE "none"]
  /\ sid = [c \in Chan |-> IF c = PollChan THEN PollSid ELSE NoSid]
  /\ alive = [c \in Chan |-> c = PollChan]
  /\ stubbed = [c \in Chan |-> FALSE]
  /\ outC = [c \in Chan |-> IF c = PollChan THEN sendOpenSequence(c) ELSE <<>>]
  /\ pc = [c \in Chan |-> IF c = PollChan THEN "started" ELSE "free"]
  /\ pollingChannel = [c \in Chan |-> NoChan]
  /\ inl = [c \in Chan |-> IF c = PollChan THEN "run" ELSE "none"]
  /\ disc = [c \in Chan |-> "none"]
  /\ purgedFrom = [c \in Chan |-> {}]
  /\ userConn = [c \in Chan |-> 0]
  /\ userDisc = [c \in Chan |-> 0]
  /\ recv = [c \in Chan |-> <<>>]
  /\ calls = [c \in Chan |-> <<>>]
  /\ emitTasks = [c \in Chan |-> <<>>]
  /\ bcast = NoBroadcast
  /\ TaskInit
  /\ sessions = {PollSid}

restOfPolling == <<regVars, handlers, bcVars, chanVars, userVars, ackVars, written, lockVars,
                   running>>

\* strings.Index(bodyString, ":"): the first position of ":", from 0, or -1
Index(b) ==
  IF \E i \in DOMAIN b : b[i] = ":"
    THEN (CHOOSE i \in DOMAIN b : b[i] = ":" /\ \A j \in 1..(i - 1) : b[j] # ":") - 1
    ELSE -1
\* Serve line 162: body := bodyString[index+1:]
StripLength(b) == SubSeq(b, Index(b) + 2, Len(b))

\* faulty variant: the sentinel's text is an error as well
GetMessageReturnStop(m) ==
  IF m = MessageClose \/ m = StopMessage
    THEN [m |-> <<>>, err |-> "errReceivedConnectionClose"]
    ELSE [m |-> m, err |-> "nil"]
\* GetMessage lines 191-197: what the call returns for message m of eventsInC
GetMessageReturn(m) ==
  IF m = MessageClose THEN [m |-> <<>>, err |-> "errReceivedConnectionClose"]
  ELSE [m |-> m, err |-> "nil"]

\* the reader after GetMessage returned r for a message sent by `from`: an
\* error ends the inbound loop, and so does the sentinel
Returned(r, sent, from) ==
  [st |-> IF r.err # "nil" \/ r.m = StopMessage THEN "exited" ELSE "busy",
   got |-> Append(rd.got, [m |-> r.m, err |-> r.err, sent |-> sent, from |-> from])]

\* the inbound loop calls GetMessage and enters its select (lines 186-187)
GetMessage ==
  /\ rd.st = "busy"
  /\ rd' = [rd EXCEPT !.st = "reading"]
  /\ UNCHANGED <<pw, wm, post, sessions, restOfPolling>>

\* GetMessage lines 188-190: ReceiveTimeout elapsed without a message
GetMessageTimeout ==
  /\ rd.st = "reading"
  /\ rd' = Returned([m |-> <<>>, err |-> "errGetMessageTimeout"], <<>>, "timer")
  /\ UNCHANGED <<pw, wm, post, sessions, restOfPolling>>

\* Serve lines 143-166 for a POST of a known session: the body is read (a
\* failed read returns), cut after the length prefix, and "ok" is written;
\* the next statement is the send of the body on eventsInC
ServePost(p, raw, ok) ==
  /\ PollSid \in sessions
  /\ post[p].st = "idle"
  /\ post' = [post EXCEPT ![p] =
               IF ok THEN [st |-> "okwritten", raw |-> raw, body |-> StripLength(raw),
                           resp |-> "ok"]
               ELSE [st |-> "returned", raw |-> raw, body |-> <<>>, resp |-> "none"]]
  /\ UNCHANGED <<pw, wm, rd, sessions, restOfPolling>>

\* the rendezvous on eventsInC: Serve line 168 with GetMessage line 191
eventsInC(p) ==
  /\ post[p].st = "okwritten"
  /\ rd.st = "reading"
  /\ rd' = Returned(GetMessageReturn(post[p].body), post[p].body, p)
  /\ post' = [post EXCEPT ![p].st = "returned"]
  /\ UNCHANGED <<pw, wm, sessions, restOfPolling>>

\* Serve lines 143-151 and PollingWriter lines 232-234: a GET request of a
\* known session enters the select
PollingWriter(g) ==
  /\ PollSid \in sessions
  /\ pw[g].st = "idle"
  /\ pw' = [pw EXCEPT ![g].st = "parked"]
  /\ UNCHANGED <<wm, post, rd, sessions, restOfPolling>>

\* PollingWriter lines 235-237: SendTimeout elapsed without a frame; the next
\* statement is the send of noError on polling.errors
PollingWriterTimeout(g) ==
  /\ pw[g].st = "parked"
  /\ pw' = [pw EXCEPT ![g] = [st |-> "report", frame |-> "none", out |-> noError]]
  /\ UNCHANGED <<wm, post, rd, sessions, restOfPolling>>

\* WriteMessage lines 202-204: the call starts and offers its frame on
\* polling.eventsOutC
WriteMessage(w, msg) ==
  /\ wm[w].st = "idle"
  /\ wm' = [wm EXCEPT ![w] = [@ EXCEPT !.st = "sending", !.op = "WriteMessage", !.msg = msg]]
  /\ UNCHANGED <<pw, post, rd, sessions, restOfPolling>>

\* Close lines 219-221: the call starts WriteMessage(protocol.MessageBlank)
Close(w) ==
  /\ wm[w].st = "idle"
  /\ wm' = [wm EXCEPT ![w] = [@ EXCEPT !.st = "sending", !.op = "Close", !.msg = MessageBlank]]
  /\ UNCHANGED <<pw, post, rd, sessions, restOfPolling>>

\* Close line 222: polling.Transport.sessions.Delete(polling.sessionID)
CloseDelete == sessions \ {PollSid}

\* Close lines 222-223: WriteMessage has returned; the session is deleted and
\* Close returns
CloseReturn(w) ==
  /\ wm[w].st = "returned"
  /\ wm[w].op = "Close"
  /\ wm' = [wm EXCEPT ![w].st = "closed"]
  /\ sessions' = CloseDelete
  /\ UNCHANGED <<pw, post, rd, restOfPolling>>

\* the rendezvous on eventsOutC: WriteMessage line 204 with PollingWriter
\* line 238; the call goes on to its select, the writer holds the frame
eventsOutC(w, g) ==
  /\ wm[w].st = "sending"
  /\ pw[g].st = "parked"
  /\ wm' = [wm EXCEPT ![w] = [@ EXCEPT !.st = "waiting", !.by = g]]
  /\ pw' = [pw EXCEPT ![g] = [@ EXCEPT !.st = "got", !.frame = w]]
  /\ UNCHANGED <<post, rd, sessions, restOfPolling>>

\* PollingWriter lines 239-276 up to the send on polling.errors: the blank
\* frame hijacks the connection (a failed hijack returns without a status),
\* any other frame is written to the response
PollingWriterWrite(g, ok) ==
  /\ pw[g].st = "got"
  /\ pw' = [pw EXCEPT ![g] =
             IF wm[pw[g].frame].msg = MessageBlank
               THEN IF ok THEN [@ EXCEPT !.st = "report", !.out = noError]
                    ELSE [@ EXCEPT !.st = "returned"]
               ELSE [@ EXCEPT !.st = "report", !.out = IF ok THEN noError ELSE WriteError]]
  /\ UNCHANGED <<wm, post, rd, sessions, restOfPolling>>

\* the writer hijacked the connection for the blank frame
Hijacked(g) == pw[g].frame # "none" /\ wm[pw[g].frame].msg = MessageBlank

\* polling.errors is one channel shared by every writer and every call: any
\* call in its select can receive the status any writer sends.
\* the rendezvous on polling.errors: PollingWriter line 237, 264, 273 or 276
\* with WriteMessage lines 209-214
errors(g, w) ==
  /\ pw[g].st = "report"
  /\ wm[w].st = "waiting"
  /\ wm' = [wm EXCEPT ![w] = [@ EXCEPT !.st = "returned", !.from = g,
                                      !.ret = IF pw[g].out = noError THEN "nil" ELSE "error"]]
  /\ pw' = [pw EXCEPT ![g].st = IF Hijacked(g) THEN "stop" ELSE "returned"]
  /\ UNCHANGED <<post, rd, sessions, restOfPolling>>

\* WriteMessage lines 207-208: SendTimeout elapsed without a status
WriteMessageTimeout(w) ==
  /\ wm[w].st = "waiting"
  /\ wm' = [wm EXCEPT ![w] = [@ EXCEPT !.st = "returned", !.ret = "timeout"]]
  /\ UNCHANGED <<pw, post, rd, sessions, restOfPolling>>

\* PollingWriter line 266 with GetMessage line 191: StopMessage is handed to
\* the reader of eventsInC and the writer returns
eventsInCStop(g) ==
  /\ pw[g].st = "stop"
  /\ rd.st = "reading"
  /\ rd' = Returned(GetMessageReturn(StopMessage), StopMessage, g)
  /\ pw' = [pw EXCEPT ![g].st = "returned"]
  /\ UNCHANGED <<wm, post, sessions, restOfPolling>>

NextPolling ==
  \/ \E g \in Get : PollingWriter(g)
  \/ \E g \in Get : PollingWriterTimeout(g)
  \/ \E w \in WriteCall, msg \in Frames : WriteMessage(w, msg)
  \/ \E w \in WriteCall : Close(w)
  \/ \E w \in WriteCall : CloseReturn(w)
  \/ \E w \in WriteCall, g \in Get : eventsOutC(w, g)
  \/ \E g \in Get, ok \in BOOLEAN : PollingWriterWrite(g, ok)
  \/ \E g \in Get, w \in WriteCall : errors(g, w)
  \/ \E w \in WriteCall : WriteMessageTimeout(w)
  \/ \E g \in Get : eventsInCStop(g)
  \/ GetMessage
  \/ GetMessageTimeout

SpecPolling == InitPolling /\ [][NextPolling]_vars

\* the POST requests of the session against its reader
NextInbound ==
  \/ \E p \in Post, raw \in PostBodies, ok \in BOOLEAN : ServePost(p, raw, ok)
  \/ \E p \in Post : eventsInC(p)
  \/ GetMessage
  \/ GetMessageTimeout

SpecInbound == InitPolling /\ [][NextInbound]_vars

(***************************************************************************)
(* Properties of the registry under connection churn.                      *)
(***************************************************************************)
InNoRoom(c) == \A r \in Room : c \notin RoomChannels(r)
InSidIndex(c) == Has(sids, sid[c]) /\ sids[sid[c]] = c
CleanupCompleted(c) == disc[c] \in {"sidgone", "cleaned", "done"}

\* C1: in every reachable state, under any interleaving of Join, Leave and
\* disconnect cleanup, channel c is in the room->channels entry of room r if
\* and only if r is in the channel->rooms entry of c.
C1_IndexesAgree ==
  \A c \in Chan, r \in Room : c \in RoomChannels(r) <=> r \in ChannelRooms(c)

\* C1 witness: a cleanup has just removed a channel from both rooms while a
\* second channel is still a member and a third one has left its rooms.
C1_Witness ==
  \E c, d, e \in Chan :
    /\ disc[c] = "purged" /\ purgedFrom[c] = Room
    /\ d # c /\ \E r \in Room : d \in RoomChannels(r)
    /\ e \notin {c, d} /\ Has(rooms, e) /\ rooms[e] = {}

\* C2: when the disconnect cleanup of c has run, c is a member of no room,
\* has no entry in the channel->rooms index and its sid is absent from the
\* sid index, whether or not c had joined a room; the rooms are purged before
\* the sid entry is removed, and both happen while c holds channelsMu.
C2_CleanupPost ==
  [][\A c \in Chan :
       /\ disc'[c] \in {"purged", "sidgone"} =>
            /\ channelsMu' = c
            /\ \A r \in Room : c \notin RoomChannels(r)'
            /\ ~Has(rooms', c)
       /\ (disc[c] = "purged" /\ disc'[c] = "sidgone") => ~Has(sids', sid[c])
       /\ (Has(sids, sid[c]) /\ ~Has(sids', sid[c])) =>
            \E d \in Chan : /\ sid[d] = sid[c]
                            /\ disc[d] = "purged"
                            /\ channelsMu = d
                            /\ InNoRoom(d) /\ ~Has(rooms, d)]_vars

\* C2 witness: one cleanup has finished for a channel that had joined both
\* rooms, and another for a channel that never joined any.
C2_Witness ==
  \E c, d \in Chan :
    /\ disc[c] = "sidgone" /\ purgedFrom[c] = Room /\ ~Has(sids, sid[c])
    /\ d # c /\ disc[d] = "done" /\ pc[d] = "started" /\ InNoRoom(d)

\* C3 (as claimed): every channel that is a member of some room is the
\* channel the sid index maps its sid to, until its disconnect cleanup has
\* completed, also during and after an upgrade of its sid.
C3_RoomMembersInSidIndex ==
  \A c \in Chan :
    (~InNoRoom(c) /\ ~CleanupCompleted(c)) => InSidIndex(c)

\* C4 (as claimed): when the upgrade swaps the sid index over to the new
\* websocket channel, every room the polling channel is a member of contains
\* the new channel and no longer the polling channel.
C4_UpgradeKeepsRooms ==
  [][\A c \in Chan :
       (pc[c] = "u_started" /\ pc'[c] = "u_registered") =>
         \A r \in Room :
           pollingChannel[c] \in RoomChannels(r) =>
             /\ c \in RoomChannels(r)'
             /\ pollingChannel[c] \notin RoomChannels(r)']_vars

\* C5: during an upgrade the sid index is pointed at the new channel first,
\* the upgraded signal is received next and only then is the polling channel
\* stubbed; without the signal there is no stub, and once a channel is
\* stubbed the sid index (which BroadcastToAll reads) never maps to it.
C5_UpgradeOrder ==
  [][\A c \in Chan :
       /\ (inl[c] = "probe" /\ inl'[c] = "run") =>
            pc[c] = "u_registered"
       /\ (pollingChannel[c] # NoChan /\ ~stubbed[pollingChannel[c]]
             /\ stubbed'[pollingChannel[c]]) =>
            \E u \in Chan : pollingChannel[u] = pollingChannel[c] /\ pc[u] = "u_signalled"
       /\ stubbed'[c] => ~(Has(sids', sid'[c]) /\ sids'[sid'[c]] = c)]_vars

\* C5 witness: the polling channel is stubbed and the sid index maps its sid
\* to the new, live websocket channel.
C5_Witness ==
  \E c \in Chan :
    /\ pc[c] = "u_done" /\ alive[c] /\ InSidIndex(c)
    /\ stubbed[pollingChannel[c]] /\ ~alive[pollingChannel[c]]

\* C7 (as claimed): the user's disconnection handler runs after the inbound
\* loop has exited and before the channel is removed from the room registry
\* and the sid index.
C7_HandlerBeforeCleanup ==
  [][\A c \in Chan :
       userDisc'[c] # userDisc[c] => (inl[c] = "exit" /\ disc[c] = "start")]_vars

\* C7 (amended): the user's disconnection handler runs after the inbound
\* loop has exited and after onDisconnection has run to its end for the
\* channel (rooms purged, sid entry deleted, channelsMu released).
C7_HandlerAfterCleanup ==
  [][\A c \in Chan :
       userDisc'[c] # userDisc[c] =>
         (inl[c] = "exit" /\ disc[c] = "cleaned" /\ channelsMu # c)]_vars

\* C7 witness: the handler has run for a channel whose cleanup is complete
\* while another channel is still a member of a room.
C7_Witness ==
  \E c, d \in Chan :
    /\ userDisc[c] = 1 /\ disc[c] = "done" /\ pc[c] = "done"
    /\ ~InSidIndex(c) /\ InNoRoom(c)
    /\ d # c /\ ~InNoRoom(d)
(***************************************************************************)
(* Properties of session setup.                                            *)
(***************************************************************************)
\* C6 (as claimed): for every channel of a new session the connection event
\* (registration in the sid index and the user's connection handler) fires
\* exactly once, and before any user event handler runs for a packet of that
\* channel.
C6_ConnectionFirst ==
  \A c \in Chan :
    /\ userConn[c] <= 1
    /\ pc[c] = "done" => userConn[c] = 1
    /\ calls[c] # <<>> => (userConn[c] = 1 /\ InSidIndex(c))

(***************************************************************************)
(* Properties of the broadcast fan-out.                                    *)
(***************************************************************************)
Started(c) == Len(emitTasks'[c]) - Len(emitTasks[c])

\* C8 (as claimed): when channel A, a member of the room together with alive
\* channels B and C, calls BroadcastTo, B and C are each sent the event and
\* A is not.
C8_SenderExcluded ==
  [][(bcast' # bcast /\ bcast'.op = "BroadcastTo"
        /\ RoomChannels(bcast'.room) = Chan /\ \A c \in Chan : alive[c]) =>
       \A c \in Chan : Started(c) = IF c = bcast'.caller THEN 0 ELSE 1]_vars

\* C8 (amended): when channel A, a member of the room together with alive
\* channels B and C, calls BroadcastTo, B and C are each sent the event and
\* so is A itself.
C8_AllMembersSent ==
  [][(bcast' # bcast /\ bcast'.op = "BroadcastTo"
        /\ RoomChannels(bcast'.room) = Chan /\ \A c \in Chan : alive[c]) =>
       \A c \in Chan :
         /\ Started(c) = 1
         /\ emitTasks'[c][Len(emitTasks'[c])] = [name |-> "tick", payload |-> 1]]_vars

\* C8 witness: the broadcast of A to the room of A, B and C has started an
\* Emit for each of the three.
C8_Witness ==
  /\ bcast.op = "BroadcastTo" /\ bcast.caller = "c1" /\ bcast.room = "roomX"
  /\ RoomChannels("roomX") = Chan
  /\ \A c \in Chan : alive[c] /\ Len(emitTasks[c]) = bcast.n

\* C9: BroadcastTo starts exactly one asynchronous Emit for every channel
\* that is a member of the room and alive when the room is read, none for
\* any other channel, and returns with these Emits still pending, whatever
\* became of earlier Emits; BroadcastToAll does the same over the channels
\* of the sid index.
C9_FanOut ==
  [][bcast' # bcast =>
       LET members == IF bcast'.op = "BroadcastTo"
                        THEN RoomChannels(bcast'.room)
                        ELSE {c \in Chan : InSidIndex(c)}
       IN \A c \in Chan :
            /\ Started(c) = IF c \in members /\ alive[c] THEN 1 ELSE 0
            /\ (c \in members /\ alive[c]) => emitTasks'[c] # <<>>
            /\ outC'[c] = outC[c]]_vars

\* C9 witness: a second broadcast to a room with a live member, a closed
\* member and a non-member has started an Emit for the live member only,
\* while the Emit of the first broadcast to that member is still pending.
C9_Witness ==
  \E a, b, c \in Chan :
    /\ bcast.op = "BroadcastTo" /\ bcast.room = "roomX" /\ bcast.n = 2
    /\ {a, b} \subseteq RoomChannels("roomX") /\ c \notin RoomChannels("roomX")
    /\ alive[a] /\ ~alive[b] /\ alive[c]
    /\ Len(emitTasks[a]) = 2 /\ emitTasks[b] = <<>> /\ emitTasks[c] = <<>>
    /\ outC[c] = <<OpenPacket(c), EmptyPacket>>
(***************************************************************************)
(* Properties of the dispatch of inbound packets.                          *)
(***************************************************************************)
IsAckReq(m) == m.type = "ackreq"
IsAckResp(m) == m.type = "ackresp"
\* an ack request whose handler is registered and declares a return value
Answerable(m) == IsAckReq(m) /\ Has(handlers, m.name) /\ handlers[m.name].out
\* ... and whose args the handler's argument type accepts
Decodable(m) ==
  ~handlers[m.name].hasArgs \/ Unmarshal(m.args, handlers[m.name].argType)
AnswerableDecodable(m) == Answerable(m) /\ Decodable(m)

\* the inbound loop's step on a packet answers it iff `answered` holds of the
\* packet: one handler call and one ack response appended to the channel's
\* queue, with the request's ack id and the handler's return value; no ack
\* response is enqueued for any other packet
AnswersExactly(c, answered(_)) ==
  recv'[c] # recv[c] =>
    LET m == recv'[c][Len(recv'[c])] IN
    IF answered(m)
      THEN /\ Len(calls'[c]) = Len(calls[c]) + 1
           /\ SubSeq(calls'[c], 1, Len(calls[c])) = calls[c]
           /\ calls'[c][Len(calls'[c])].name = m.name
           /\ calls'[c][Len(calls'[c])].args = m.args
           /\ outC'[c] = Append(outC[c], [type |-> "ackresp", ackID |-> m.ackID,
                                          args |-> calls'[c][Len(calls'[c])].ret])
      ELSE outC'[c] = outC[c]

\* C10 (as claimed): for every inbound ack request whose handler is
\* registered and declares a return value, the handler is invoked exactly
\* once and exactly one ack response is enqueued on the same channel, with
\* the request's ack id and the handler's return value; no ack response is
\* enqueued with an ack id the client did not send.
C10_EveryAckRequestAnswered ==
  [][\A c \in Chan : AnswersExactly(c, Answerable)]_vars

\* C10 (amended): the same for every inbound ack request whose handler is
\* registered, declares a return value and either takes no argument or takes
\* one the request's args deserialise into; no other packet gets an ack
\* response.
C10_DecodableAckRequestAnswered ==
  [][\A c \in Chan : AnswersExactly(c, AnswerableDecodable)]_vars

\* C10 witness: two ack requests with different ack ids were answered in
\* turn, each with its own id and its handler's return value.
C10_Witness ==
  LET c == DispatchChan
      resps == SelectSeq(outC[c], IsAckResp)
  IN /\ Len(recv[c]) = 2 /\ Len(resps) = 2
     /\ recv[c][1].ackID = 2 /\ recv[c][2].ackID = 1
     /\ resps[1].ackID = 2 /\ resps[2].ackID = 1
     /\ resps[1].args # resps[2].args

(***************************************************************************)
(* Properties of the ack registry.                                         *)
(***************************************************************************)
AckDone == {"success", "timeout", "closed"}
\* an Ack call that returned left no slot; a successful one got the args of an
\* ack response the client sent with the call's ack id; slots belong to calls
AckSlotsRemoved(c) ==
  /\ ackTable[c] \subseteq DOMAIN ackCalls[c]
  /\ \A i \in DOMAIN ackCalls[c] :
       /\ ackCalls[c][i].st \in AckDone => i \notin ackTable[c]
       /\ ackCalls[c][i].st = "success" =>
            \E k \in DOMAIN recv[c] :
              /\ recv[c][k].type = "ackresp"
              /\ recv[c][k].ackID = i
              /\ recv[c][k].args = ackCalls[c][i].got
\* an ack response for an ack id without a slot changes nothing
AckWithoutSlotIgnored(c) ==
  (/\ Len(recv'[c]) = Len(recv[c]) + 1
   /\ recv'[c][Len(recv'[c])].type = "ackresp"
   /\ recv'[c][Len(recv'[c])].ackID \notin ackTable[c])
    => /\ ackCalls' = ackCalls
       /\ ackTable' = ackTable
       /\ outC' = outC
       /\ calls' = calls

\* C11: an outstanding ack slot is removed in every outcome of the wait (the
\* matching ack response arrived and the waiter received its raw args, the
\* wait timed out, the channel shut down): after the call returned no slot for
\* its ack id remains; an ack response for an ack id with no slot is ignored.
C11_SlotRemoved ==
  /\ [](\A c \in Chan : AckSlotsRemoved(c))
  /\ [][\A c \in Chan : AckWithoutSlotIgnored(c)]_vars

\* C11 witness: one Ack call returned the args of its response, the other
\* timed out, a response for an ack id never issued was ignored, and the
\* table is empty.
C11_Witness ==
  LET c == DispatchChan IN
  /\ Len(ackCalls[c]) = 2
  /\ ackCalls[c][1] = [st |-> "success", got |-> "rb"]
  /\ ackCalls[c][2].st = "timeout"
  /\ ackTable[c] = {}
  /\ \E k \in DOMAIN recv[c] : recv[c][k].type = "ackresp" /\ recv[c][k].ackID = 3

(***************************************************************************)
(* Properties of the packets written to a new session's client.            *)
(***************************************************************************)
IsApplicationPacket(p) == p.type \in {"emit", "ackreq", "ackresp"}

\* C12: for every new session the first two packets written to the client
\* are the open packet and then the empty-message sentinel, and both precede
\* every application packet (event, ack response, broadcast) written on the
\* channel.
C12_OpenSequenceFirst ==
  \A c \in NewChan :
    /\ Len(written[c]) >= 1 => written[c][1] = OpenPacket(c)
    /\ Len(written[c]) >= 2 => written[c][2] = EmptyPacket
    /\ \A i \in DOMAIN written[c] : IsApplicationPacket(written[c][i]) => i > 2

\* C12 witness: a session's client was written the open sequence, then an
\* ack response and a broadcast event.
C12_Witness ==
  \E c \in NewChan :
    /\ Len(written[c]) = 4
    /\ written[c][1].type = "open" /\ written[c][2].type = "empty"
    /\ {written[c][3].type, written[c][4].type} = {"ackresp", "emit"}

\* C13: the upgrades list carried in the open payload of a new session is
\* ["websocket"] when the session was initiated over the polling transport
\* and the empty list when it was initiated over the websocket transport.
C13_UpgradesByTransport ==
  \A c \in NewChan :
    Len(written[c]) >= 1 =>
      written[c][1].upgrades = IF kind[c] = "polling" THEN <<"websocket">> ELSE <<>>

(***************************************************************************)
(* Properties of the locks of a dispatch.                                  *)
(***************************************************************************)
\* C14: no user handler (event handler, ack handler, the user's connection or
\* disconnection handler) is invoked while the invoking task holds the
\* room-registry lock, the sid-index lock or the handler-registry lock.
C14_NoLockAtHandlerCall == \A h \in heldAtCall : h.locks = {}

\* C14 witness: the connection handler, an event handler and the
\* disconnection handler of a channel were invoked, the last one after the
\* cleanup under channelsMu and sidsMu took the channel out of the indexes.
C14_Witness ==
  \E c \in NewChan :
    /\ {h.name : h \in {x \in heldAtCall : x.chan = c}} = {OnConnection, "join", OnDisconnection}
    /\ pc[c] = "done" /\ disc[c] = "done"
    /\ ~Has(rooms, c) /\ ~Has(sids, sid[c])

(***************************************************************************)
(* Properties of the order of handler calls.                               *)
(***************************************************************************)
\* C15: for a single channel the user handlers are invoked synchronously on
\* the inbound loop in packet arrival order: the handler for packet k returns
\* before the handler of a later packet of the channel starts, so two
\* handlers of one channel never run at the same time.
C15_HandlersInOrder ==
  \A c \in Chan :
    /\ Len(running[c]) <= 1
    /\ \A i, j \in DOMAIN calls[c] : i < j => calls[c][i].k < calls[c][j].k
    /\ \A i \in DOMAIN calls[c], j \in DOMAIN running[c] : calls[c][i].k < running[c][j].k

\* C15 witness: the handler of the first packet has returned and the handler
\* of the second packet is running.
C15_Witness ==
  LET c == DispatchChan IN
  /\ Len(calls[c]) = 1 /\ calls[c][1].k = 1
  /\ Len(running[c]) = 1 /\ running[c][1].k = 2

(***************************************************************************)
(* Properties of the room keys.                                            *)
(***************************************************************************)
\* C16: in every reachable state no room key maps to an empty member set
\* (Leave and the disconnect cleanup delete the key of a room whose last
\* member they remove), so CountRooms equals the number of rooms with at
\* least one joined channel and Amount(room) is 0 exactly for absent rooms.
C16_NoEmptyRoom ==
  /\ \A r \in DOMAIN channels : channels[r] # {}
  /\ CountRooms = Cardinality({r \in Room : \E c \in Chan : c \in RoomChannels(r)})
  /\ \A r \in Room : Amount(r) = 0 <=> ~Has(channels, r)

\* C16 witness: a cleanup has just removed the last member of one room, whose
\* key is gone, and one of two members of the other room, which is counted.
C16_Witness ==
  \E c \in Chan, r1, r2 \in Room :
    /\ disc[c] = "purged" /\ purgedFrom[c] = {r1, r2} /\ r1 # r2
    /\ ~Has(channels, r1) /\ Amount(r1) = 0
    /\ Amount(r2) = 1 /\ CountRooms = 1

(***************************************************************************)
(* Properties of packets without a handler.                                *)
(***************************************************************************)
\* the step receives packet m on channel c
Receives(c, m) == recv'[c] = Append(recv[c], m)
NoHandlerPackets == {m \in DispatchPackets : ~Has(handlers, m.name)}

\* C17: an inbound event or ack request whose event name has no registered
\* handler is dropped: no handler is invoked, no packet is enqueued, and the
\* room registry, sid index, handler registry and ack table are unchanged.
C17_NoHandlerDropped ==
  [][\A c \in Chan, m \in NoHandlerPackets :
       Receives(c, m) =>
         /\ calls' = calls /\ running' = running
         /\ outC' = outC
         /\ channels' = channels /\ rooms' = rooms /\ sids' = sids
         /\ handlers' = handlers
         /\ ackTable' = ackTable /\ ackCalls' = ackCalls]_vars

\* C17 witness: an event and an ack request without a handler were received
\* and nothing was called or queued after the open sequence.
C17_Witness ==
  LET c == DispatchChan IN
  /\ \E i, j \in DOMAIN recv[c] :
       /\ recv[c][i].type = "emit" /\ recv[c][j].type = "ackreq"
       /\ ~Has(handlers, recv[c][i].name) /\ ~Has(handlers, recv[c][j].name)
  /\ calls[c] = <<>>
  /\ outC[c] = sendOpenSequence(c)

(***************************************************************************)
(* Properties of closing a channel.                                        *)
(***************************************************************************)
\* the channel was closed: its inbound loop has exited
Closed(c) == inl[c] = "exit" /\ ~alive[c]

\* C18: closing a channel is idempotent: whichever trigger closed it (close
\* packet, read or write error, ping timeout, Close(), stub after upgrade),
\* the disconnection event, which removes the channel from the registries,
\* has been dispatched for a closed channel, and the user's disconnection
\* handler has run at most once.
C18_DisconnectionExactlyOnce ==
  \A c \in Chan :
    /\ userDisc[c] <= 1
    /\ Closed(c) => disc[c] # "none"

(***************************************************************************)
(* Properties of the polling connection.                                   *)
(***************************************************************************)
\* the call received a status
GotStatus(w) == wm[w].st = "returned" /\ wm[w].from # NoGet
\* the HTTP write of the call's frame failed
WriteFailed(w) ==
  wm[w].by # NoGet /\ pw[wm[w].by].frame = w /\ pw[wm[w].by].out = WriteError

\* C19: a WriteMessage call that receives a status receives the one reported
\* by the PollingWriter that consumed its own frame: it never returns nil
\* for a frame whose HTTP write failed and never takes the status left by a
\* timed-out or earlier writer.
C19_OwnStatus ==
  \A w \in WriteCall :
    /\ GotStatus(w) => wm[w].from = wm[w].by
    /\ wm[w].ret = "nil" => ~WriteFailed(w)

\* a writer that timed out without a frame and is at its send of noError
TimedOut(g) == pw[g].st = "report" /\ pw[g].frame = "none"
\* the writer's send on polling.errors can complete
CanReport(g) == ENABLED (\E w \in WriteCall : errors(g, w))

\* C20: a GET that parked in PollingWriter and timed out without a frame
\* reports noError and returns: it is not blocked at the report, also when no
\* WriteMessage call is waiting for a status.
C20_TimedOutWriterReturns ==
  \A g \in Get : TimedOut(g) => CanReport(g)

\* the writer hijacked the connection and wrote the minimal response
HijackDone(g) == Hijacked(g) /\ pw[g].out = noError
\* the writer's status was received by a WriteMessage call
Reported(g) == \E w \in WriteCall : wm[w].from = g
\* the reader received StopMessage from the writer
StopReceived(g) == \E i \in DOMAIN rd.got : rd.got[i].from = g /\ rd.got[i].m = StopMessage
\* the writer is at its send of StopMessage on eventsInC
AtStop(g) == pw[g].st = "stop"

\* the order of a writer that got the blank frame: response, then status,
\* then StopMessage, then return
HijackOrder(g) ==
  /\ AtStop(g) => HijackDone(g) /\ Reported(g) /\ ~StopReceived(g)
  /\ HijackDone(g) /\ pw[g].st = "returned" => Reported(g) /\ StopReceived(g)

\* C21: a PollingWriter that receives the blank frame hijacks the connection
\* and writes the minimal response, reports noError, then pushes StopMessage
\* into eventsInC, in that order; the reader of the connection receives
\* StopMessage next and the writer returns.
C21_StopReleasesReader ==
  \A g \in Get :
    /\ HijackOrder(g)
    /\ AtStop(g) => rd.st # "exited"

\* the call is inside WriteMessage and has not returned
InWriteMessage(w) == wm[w].st \in {"sending", "waiting"}
\* the call can return by its own timeout, whatever the GET requests do
CanTimeOut(w) == ENABLED WriteMessageTimeout(w)

\* C22: WriteMessage, and Close which calls it, always returns (nil, a write
\* error or errWriteMessageTimeout) even if no GET request ever consumes the
\* frame: wherever the call waits, its timeout can end the wait; and after
\* Close has returned the session id is not in the session map.
C22_WriteMessageReturns ==
  \A w \in WriteCall :
    /\ InWriteMessage(w) => CanTimeOut(w)
    /\ wm[w].st = "closed" => PollSid \notin sessions

(***************************************************************************)
(* Properties of the inbound side of the polling connection.               *)
(***************************************************************************)
\* the results of the reader's GetMessage calls
Results == {rd.got[i] : i \in DOMAIN rd.got}

\* C23: a POSTed payload is handed to the reader after "ok" has been written
\* and GetMessage returns it unchanged; GetMessage returns an error exactly
\* when the payload is the close packet or ReceiveTimeout elapsed without a
\* payload, and for no other payload.
C23_GetMessage ==
  \A r \in Results :
    /\ r.from \in Post => post[r.from].resp = "ok" /\ r.sent = post[r.from].body
    /\ r.err = "nil" => r.from \in Post \cup Get /\ r.m = r.sent
    /\ r.err # "nil" <=> (r.from = "timer" \/ r.sent = MessageClose)

\* C23 witness: GetMessage returned a posted event payload that holds a colon
\* unchanged, and then an error for a posted close packet, which ended the
\* reader.
C23_Witness ==
  /\ Len(rd.got) = 2
  /\ rd.got[1].err = "nil" /\ rd.got[1].m = <<"42", ":", "x">>
  /\ rd.got[2].err = "errReceivedConnectionClose" /\ rd.got[2].from \in Post
  /\ rd.st = "exited"

(***************************************************************************)
(* Properties of the dispatch by handler shape.                            *)
(***************************************************************************)
\* the packet's handler takes an argument the packet's args do not decode to
Undecodable(m) ==
  /\ Has(handlers, m.name)
  /\ handlers[m.name].hasArgs
  /\ ~Unmarshal(m.args, handlers[m.name].argType)
\* the packet's handler takes no argument
NoArg(m) == Has(handlers, m.name) /\ ~handlers[m.name].hasArgs
\* the packet is an ack request whose handler declares no return value
NoReturn(m) == m.type = "ackreq" /\ Has(handlers, m.name) /\ ~handlers[m.name].out
\* the step invokes one handler on channel c, for packet m
Invokes(c, m) ==
  /\ Len(calls'[c]) = Len(calls[c]) + 1
  /\ calls'[c][Len(calls'[c])].name = m.name
  /\ calls'[c][Len(calls'[c])].args = m.args

\* C24 (as claimed): when the args of an inbound event or ack request do not
\* deserialise into the argument type of a handler that takes an argument,
\* the handler is not invoked, no ack response is enqueued and the channel
\* stays open for later packets; a handler that takes no argument is invoked
\* whatever the args are.
C24_NoArgAlwaysInvoked ==
  [][\A c \in Chan, m \in DispatchPackets :
       Receives(c, m) =>
         /\ Undecodable(m) =>
               /\ calls' = calls /\ outC' = outC
               /\ alive'[c] /\ inl'[c] = "run"
         /\ NoArg(m) => Invokes(c, m)]_vars

\* C24 (amended): undecodable args for a handler that takes an argument drop
\* the packet without a call and without an ack response, and the channel
\* stays open; a handler that takes no argument is invoked whatever the args
\* are, except for an ack request when the handler declares no return value:
\* that request is dropped without a call and without an ack response.
C24_UndecodableArgsDropped ==
  [][\A c \in Chan, m \in DispatchPackets :
       Receives(c, m) =>
         /\ Undecodable(m) =>
               /\ calls' = calls /\ outC' = outC
               /\ alive'[c] /\ inl'[c] = "run"
         /\ (NoArg(m) /\ ~NoReturn(m)) => Invokes(c, m)
         /\ (NoArg(m) /\ NoReturn(m)) =>
               /\ calls' = calls /\ outC' = outC
               /\ alive'[c] /\ inl'[c] = "run"]_vars

\* C24 witness: an ack request with args of the wrong type was dropped, and
\* the next one, with the same args for a handler without argument that
\* returns a value, was dispatched and answered.
C24_Witness ==
  LET c == DispatchChan IN
  /\ Len(recv[c]) = 2
  /\ recv[c][1] = [type |-> "ackreq", name |-> "join", args |-> "number", ackID |-> 1]
  /\ recv[c][2] = [type |-> "ackreq", name |-> "bye", args |-> "number", ackID |-> 2]
  /\ Len(calls[c]) = 1 /\ calls[c][1].name = "bye"
  /\ Len(SelectSeq(outC[c], IsAckResp)) = 1


\* C25: an inbound ack request whose registered handler declares no return
\* value is ignored, with no ack response enqueued and no handler call; an
\* inbound plain event never makes the dispatcher enqueue a packet, whatever
\* its handler returns.
C25_NoReturnIgnored ==
  [][\A c \in Chan, m \in DispatchPackets :
       Receives(c, m) =>
         /\ NoReturn(m) => calls' = calls /\ outC' = outC
         /\ m.type = "emit" => outC' = outC]_vars

\* C25 witness: an ack request for the handler "log", which returns nothing,
\* was ignored; an event for "join" was dispatched, its handler returned a
\* value, and nothing but the open sequence is queued.
C25_Witness ==
  LET c == DispatchChan IN
  /\ Len(recv[c]) = 2
  /\ recv[c][1] = [type |-> "ackreq", name |-> "log", args |-> "string", ackID |-> 1]
  /\ recv[c][2].type = "emit" /\ recv[c][2].name = "join"
  /\ Len(calls[c]) = 1 /\ calls[c][1].name = "join" /\ calls[c][1].ret = "OK"
  /\ outC[c] = sendOpenSequence(c)

\* the names of the system events
SystemNames == {OnConnection, OnDisconnection}

\* C26: the handlers registered under the system names connection and
\* disconnection are invoked by the channel lifecycle only: an inbound event
\* or ack request with one of these names invokes no handler.
C26_SystemHandlersNotDispatched ==
  [][\A c \in Chan, m \in DispatchPackets :
       Receives(c, m) /\ m.name \in SystemNames => calls' = calls]_vars

(***************************************************************************)
(* Properties of the sid index across an upgrade.                          *)
(***************************************************************************)
\* the step is the sid-index removal of the disconnect cleanup of channel c
SidCleanup(c) == disc[c] = "purged" /\ disc'[c] = "sidgone"

\* C27: the disconnect cleanup of a channel removes the sid-index entry of
\* its sid only when the entry maps to that channel: after an upgrade the
\* cleanup of the retired polling channel leaves the entry of the shared sid,
\* which maps to the websocket channel.
C27_CleanupRemovesOwnEntry ==
  [][\A s \in DOMAIN sids :
       s \notin DOMAIN sids' => \E c \in Chan : SidCleanup(c) /\ sids[s] = c]_vars

(***************************************************************************)
(* Properties of the dispatch of an ack response.                          *)
(***************************************************************************)
\* processIncoming is at its send to the slot it looked up
AtSend(c) == ackSend[c] # NoSend
\* the waiter of that slot is still at its receive
WaiterReceives(c) == ackCalls[c][ackSend[c].id].st = "waiting"

\* C28: processing an inbound ack response never blocks the dispatcher: when
\* the response for an ack id arrives while its waiter times out, under any
\* interleaving of the lookup, the timeout and the removal of the slot, the
\* response is delivered or dropped and the processing completes.
C28_AckResponseCompletes ==
  \A c \in Chan : AtSend(c) => WaiterReceives(c)

\* a task is inside a registry operation: between the call of its first
\* Lock or RLock and its return
InRegistry ==
  \/ \E c \in Chan, r \in Role :
       tpc[c][r].at \in {"conn_lock", "conn_locked", "disc_lock", "disc_locked",
                         "disc_sidlock", "disc_sidlocked", "disc_unlock"}
  \/ \E a \in Caller : rop[a].at # "idle"
\* the next statement of some task inside a registry operation
RegistryStep ==
  \/ \E c \in Chan : onConnectionLock(c) \/ onConnectionUnlock(c)
  \/ \E c \in Chan : onDisconnectionLock(c) \/ onDisconnectionRooms(c)
  \/ \E c \in Chan : onDisconnectionSidLock(c) \/ onDisconnectionSidUnlock(c)
  \/ \E c \in Chan : onDisconnectionReturn(c)
  \/ \E a \in Caller : RegistryRLock(a) \/ RegistryReturn(a)
\* while a registry operation is under way, one of them can take its next step
RegistryProgress == InRegistry => ENABLED RegistryStep
\* a task outside the registry operations holds neither lock
ReleasedOnReturn ==
  \A c \in Chan, r \in Role :
    tpc[c][r].at \in {"idle", "find", "found", "call"}
      => LocksHeldBy(c, r) \cap {"channelsMu", "sidsMu"} = {}
\* no task acquires channelsMu while it holds sidsMu
LockOrder ==
  \A c \in Chan, r \in Role :
    "sidsMu" \in LocksHeldBy(c, r) /\ "channelsMu" \notin LocksHeldBy(c, r)
      => "channelsMu" \notin LocksHeldBy(c, r)'
\* C29: the registry operations (the seven read operations, connection
\* registration, disconnect cleanup) cannot deadlock: in every reachable state
\* with an operation under way some operation can take its next step, a task
\* that has returned holds neither lock, and channelsMu is never acquired by a
\* task that holds sidsMu, so the two are only ever held in the order
\* channelsMu, sidsMu
C29_RegistryDeadlockFree ==
  [](RegistryProgress /\ ReleasedOnReturn) /\ [][LockOrder]_vars
\* C29 witness: a cleanup holds channelsMu and sidsMu together while a read
\* operation waits for its lock and the other session waits to register
C29_Witness ==
  \E c \in Chan :
    /\ LocksHeldBy(c, "close") = {"channelsMu", "sidsMu"}
    /\ \E a \in Caller : rop[a].at = "rlock"
    /\ \E d \in Chan \ {c} : At(d, "ServeHTTP", "conn_lock")
====
